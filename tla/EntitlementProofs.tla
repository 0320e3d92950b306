-------------------------- MODULE EntitlementProofs ---------------------------
(***************************************************************************)
(* The quota of Entitlement for any number of requests, subscriptions,     *)
(* periods and holds, and any plans.  Stale saves put an old count of the  *)
(* tokens back into a period, so the bound on the charges needs a ledger   *)
(* that no save can lower: an assignment of charges to periods that bounds *)
(* what each row, and each copy still to be saved, says was used, and that *)
(* together with the free grant stays within the recorded usage.           *)
(* What holds only without two operations at once needs the one in turn:   *)
(* what it has loaded is still so, and where it stands says which of the   *)
(* invariants wait for its next steps.                                     *)
(* The sums of community module Folds are unfolded by way of the smallest  *)
(* set for which a claim about them would fail.                            *)
(***************************************************************************)
EXTENDS Entitlement, FiniteSetTheorems, TLAPS

SumOver(v, S) == MapThenSumSet(LAMBDA w : v[w], S)
UsedIn(ps, u) == [i \in Periods |-> ps[i].used[u]]

Request == [at : Steps, op : Operations, hold : Holds \cup {Nobody},
            amount : Nat, sub : Subs \cup {Nobody},
            plan : Plans \cup {Nobody}, copy : Sub, time : Nat,
            period : Periods \cup {Nobody}, row : Period, free : Nat]

\* A period never exceeds the largest plan.
Capped(row) ==
    /\ \E plan \in Plans : row.total <= Total[plan]
    /\ \A u \in Units : \E plan \in Plans : row.used[u] <= Total[plan]

Charging == {"query", "usage", "hold", "settle", "upgrade"}
\* What an operation has checked, or loaded, where it stands; sb are the
\* subscriptions.
OpSound(q, sb) ==
    /\ Capped(q.row)
    /\ q.at \in {"plan", "ensure", "find", "insert", "first"}
         => q.sub \in Subs /\ sb[q.sub].plan # Nobody /\ q.copy.plan # Nobody
    /\ q.at = "plan" => q.op \in {"upgrade", "downgrade"}
    /\ q.at \in {"ensure", "find", "insert", "keep"} => q.op \in Charging
    /\ q.at \in {"keep", "resave", "grant", "commit"} => q.period \in Periods
    /\ q.at = "keep" => q.sub \in Subs
    /\ q.at \in {"keep", "resave"} => q.row.sub \in Subs
    /\ q.at = "resave" => q.op = "upgrade"
    /\ q.at = "grant" => q.op \in {"usage", "hold", "settle"}
    /\ q.at = "commit" => q.op \in {"usage", "settle"} /\ q.free <= q.amount
    /\ q.at = "freeze" => q.op = "hold"
    /\ q.at = "release" => q.op = "refund"
    /\ q.at = "subscribe" => q.plan \in Plans
    /\ q.op \in {"hold", "settle", "refund"} => q.hold \in Holds

\* c bounds, for each period, what it and every copy of it says was used.
Bounds(c, u, ps, rq, g, us) ==
    /\ \A i \in Periods : ps[i].used[u] <= c[i]
    /\ \A p \in Requests : rq[p].at \in {"keep", "resave"}
         => rq[p].row.used[u] <= c[rq[p].period]
    /\ SumOver(c, Periods) + g.used[u] <= us[u]
Ledger(u, ps, rq, g, us) ==
    \E c \in [Periods -> Nat] : Bounds(c, u, ps, rq, g, us)

\* One operation at a time.  The charge:
Charge(q, ps, g, us) ==
    /\ \A u \in Units : SumOver(UsedIn(ps, u), Periods) + g.used[u] = us[u]
    /\ \A i \in Periods : ps[i].sub = Nobody => ps[i].used = Unused
    /\ g.until = 0 => g.used = Unused
    /\ q.at \in {"keep", "resave", "grant", "commit"}
         => ps[q.period].sub # Nobody
    /\ q.at \in {"keep", "resave"} => q.row.used = ps[q.period].used
    /\ q.at = "commit" => /\ g.used[Unit(q.op)] + q.free <= FreeTotal
                          /\ q.free > 0 => g.until > 0
Bill(q, hs, md) ==
    /\ \A h \in Holds : md[h] = IF hs[h].status = "settled" THEN 1 ELSE 0
    /\ q.op \in {"settle", "refund"} => hs[q.hold].status = "frozen"
Once(q, sb, ps) ==
    /\ \A i, j \in Periods :
         ps[i].sub # Nobody /\ ps[i].sub = ps[j].sub /\ i # j
           => ps[i].end # ps[j].end
    /\ \A i \in Periods : ps[i].sub # Nobody
         => sb[ps[i].sub].plan # Nobody /\ ps[i].end <= sb[ps[i].sub].end
    /\ q.at \in {"ensure", "find", "insert", "first"} => q.copy = sb[q.sub]
    /\ q.at = "plan" => /\ q.copy.end = sb[q.sub].end
                        /\ q.op = "downgrade" => q.copy.plan = sb[q.sub].plan
    /\ q.at \in {"find", "insert", "first"}
         => \A i \in Periods : ps[i].sub = q.sub => ps[i].end < q.copy.end
    /\ q.at \in {"keep", "resave"}
         => ps[q.period] = [q.row EXCEPT !.total = ps[q.period].total]
    /\ q.at = "resave" => ps[q.period] = q.row
    /\ q.at = "keep" =>
         /\ q.row.total = Total[sb[q.sub].plan] /\ q.row.sub = q.sub
         /\ \A j \in Periods :
              ps[j].sub = q.sub /\ ps[j].end = sb[q.sub].end => j = q.period
Follows(s, sb, ps) ==
    \A i \in Periods : ps[i].sub = s /\ ps[i].end = sb[s].end
                         => ps[i].total = Total[sb[s].plan]
Follow(q, sb, ps) ==
    \A s \in Subs : sb[s].plan # Nobody
      => Follows(s, sb, ps)
         \/ (q.op = "upgrade" /\ q.sub = s /\ q.at \in {"ensure", "keep"})

InTurn(q, sb, ps, g, hs, us, md, st) ==
    /\ Charge(q, ps, g, us)
    /\ Bill(q, hs, md)
    /\ Once(q, sb, ps)
    /\ st = 0 => Follow(q, sb, ps)
Turn(q) == InTurn(q, subs, periods, grant, holds, usage, media, stops)
Serial ==
    overlaps = 0 =>
      \/ Quiet /\ Turn(Idle)
      \/ \E p \in Requests :
           (\A o \in Requests \ {p} : Free(o)) /\ Turn(req[p])

Granting ==
    stops = 0 /\ Active # {}
      => grant.until > 0 \/ \E p \in Requests : req[p].at \in {"first", "give"}

IInv ==
    /\ TypeOK
    /\ \A p \in Requests : OpSound(req[p], subs)
    /\ \A i \in Periods : Capped(periods[i])
    /\ \A u \in Units : grant.used[u] <= FreeTotal
    /\ \A u \in Units : Ledger(u, periods, req, grant, usage)
    /\ \A h \in Holds : holds[h].status = "settled" => media[h] >= 1
    /\ Granting
    /\ Serial

-----------------------------------------------------------------------------
(* Sums over finite sets.  What holds of all subsets but one holds of a    *)
(* smallest one that breaks it, which is never empty.                      *)

Pick(s) == CHOOSE x \in s : TRUE
Sums(g, v, S) ==
  g = [s \in SUBSET S |-> IF s = {} THEN 0
                          ELSE v[Pick(s)] + g[s \ {Pick(s)}]]

LEMMA SumDef ==
  ASSUME NEW v, NEW S
  PROVE  SumOver(v, S) = (CHOOSE g : Sums(g, v, S))[S]
  BY Zenon DEF SumOver, MapThenSumSet, MapThenFoldSet, Sums, Pick

LEMMA MinimalSet ==
  ASSUME NEW S, IsFiniteSet(S), NEW B, B \subseteq SUBSET S, B # {}
  PROVE  \E T \in B : \A U \in B : U \subseteq T => U = T
<1>1. FiniteSubsetsOf(S) = SUBSET S
  BY FS_FiniteSubsetsOfFinite
<1>2. PICK T \in B : \A U \in B : ~(<<U, T>> \in StrictSubsetOrdering(S))
  BY <1>1, FS_StrictSubsetOrderingWellFounded, WFMin, Zenon
<1>3. ASSUME NEW U \in B, U \subseteq T PROVE U = T
  BY <1>2, <1>3 DEF StrictSubsetOrdering
<1> QED
  BY <1>3

LEMMA SumsUnique ==
  ASSUME NEW v, NEW S, IsFiniteSet(S), NEW g, NEW h,
         Sums(g, v, S), Sums(h, v, S)
  PROVE  g = h
<1> DEFINE B == {s \in SUBSET S : g[s] # h[s]}
<1>1. CASE B = {}
  BY <1>1, Zenon DEF Sums
<1>2. CASE B # {}
  <2>1. PICK T \in B : \A U \in B : U \subseteq T => U = T
    <3>1. B \subseteq SUBSET S
      OBVIOUS
    <3> HIDE DEF B
    <3> QED BY <1>2, <3>1, MinimalSet
  <2>2. T # {}
    BY DEF Sums
  <2>3. Pick(T) \in T
    BY <2>2 DEF Pick
  <2>4. T \ {Pick(T)} \in SUBSET S /\ T \ {Pick(T)} # T
    BY <2>3
  <2>5. g[T \ {Pick(T)}] = h[T \ {Pick(T)}]
    BY <2>1, <2>4
  <2> QED
    BY <2>2, <2>4, <2>5 DEF Sums
<1> QED BY <1>1, <1>2

Unfolds(v, T) ==
  SumOver(v, T) = IF T = {} THEN 0 ELSE v[Pick(T)] + SumOver(v, T \ {Pick(T)})

LEMMA SumUnfolds ==
  ASSUME NEW v, NEW S, IsFiniteSet(S)
  PROVE  Unfolds(v, S)
<1> DEFINE B == {s \in SUBSET S : ~Unfolds(v, s)}
<1>1. CASE B # {}
  <2>1. PICK T \in B : \A U \in B : U \subseteq T => U = T
    <3>1. B \subseteq SUBSET S
      OBVIOUS
    <3> HIDE DEF B
    <3> QED BY <1>1, <3>1, MinimalSet
  <2>2. IsFiniteSet(T) /\ T \in SUBSET S /\ ~Unfolds(v, T)
    BY FS_Subset
  <2>3. \A U \in SUBSET T : U # T => Unfolds(v, U)
    BY <2>1, <2>2
  <2> DEFINE x == Pick(T)
             top == IF T = {} THEN 0 ELSE v[x] + SumOver(v, T \ {x})
             g == [s \in SUBSET T |-> IF s = T THEN top ELSE SumOver(v, s)]
  <2>4. ASSUME NEW s \in SUBSET T, s # {}
        PROVE  s \ {Pick(s)} \in (SUBSET T) \ {s, T}
    BY <2>4 DEF Pick
  <2>5. ASSUME NEW s \in SUBSET T
        PROVE  g[s] = IF s = {} THEN 0
                      ELSE v[Pick(s)] + g[s \ {Pick(s)}]
    <3>1. s # {} => g[s \ {Pick(s)}] = SumOver(v, s \ {Pick(s)})
      BY <2>4
    <3>2. CASE s = T
      BY <3>1, <3>2
    <3>3. CASE s # T
      BY <2>3, <3>1, <3>3 DEF Unfolds
    <3> QED BY <3>2, <3>3
  <2>6. Sums(g, v, T)
    <3>1. g = [s \in SUBSET T |-> g[s]]
      BY Zenon
    <3> HIDE DEF g
    <3> QED BY <2>5, <3>1, Zenon DEF Sums
  <2>7. \A h : Sums(h, v, T) => h = g
    BY <2>2, <2>6, SumsUnique
  <2>8. (CHOOSE h : Sums(h, v, T)) = g
    <3> HIDE DEF g
    <3> QED BY <2>6, <2>7
  <2>9. SumOver(v, T) = g[T]
    BY <2>8, SumDef
  <2>10. g[T] = top
    OBVIOUS
  <2> QED BY <2>2, <2>9, <2>10 DEF Unfolds
<1>2. CASE B = {}
  BY <1>2
<1> QED BY <1>1, <1>2

LEMMA SumType ==
  ASSUME NEW v, NEW S, IsFiniteSet(S), \A w \in S : v[w] \in Nat
  PROVE  SumOver(v, S) \in Nat
<1> DEFINE B == {s \in SUBSET S : SumOver(v, s) \notin Nat}
<1>1. CASE B # {}
  <2>1. PICK T \in B : \A U \in B : U \subseteq T => U = T
    <3>1. B \subseteq SUBSET S
      OBVIOUS
    <3> HIDE DEF B
    <3> QED BY <1>1, <3>1, MinimalSet
  <2>2. Unfolds(v, T)
    BY FS_Subset, SumUnfolds
  <2>3. T # {}
    BY <2>2 DEF Unfolds
  <2>4. Pick(T) \in T
    BY <2>3 DEF Pick
  <2>5. SumOver(v, T \ {Pick(T)}) \in Nat
    BY <2>1, <2>4
  <2> QED
    BY <2>2, <2>3, <2>4, <2>5 DEF Unfolds
<1>2. CASE B = {}
  BY <1>2
<1> QED BY <1>1, <1>2

LEMMA SumRemove ==
  ASSUME NEW v, NEW S, IsFiniteSet(S), NEW y \in S,
         \A w \in S : v[w] \in Nat
  PROVE  SumOver(v, S) = v[y] + SumOver(v, S \ {y})
<1> DEFINE Splits(T) ==
             \A z \in T : SumOver(v, T) = v[z] + SumOver(v, T \ {z})
           B == {s \in SUBSET S : ~Splits(s)}
<1>1. CASE B # {}
  <2>1. PICK T \in B : \A U \in B : U \subseteq T => U = T
    <3>1. B \subseteq SUBSET S
      OBVIOUS
    <3> HIDE DEF B
    <3> QED BY <1>1, <3>1, MinimalSet
  <2>2. PICK z \in T : SumOver(v, T) # v[z] + SumOver(v, T \ {z})
    OBVIOUS
  <2> DEFINE x == Pick(T)
  <2>3. x \in T
    BY DEF Pick
  <2>4. SumOver(v, T) = v[x] + SumOver(v, T \ {x})
    BY FS_Subset, SumUnfolds DEF Unfolds
  <2>5. x # z
    BY <2>2, <2>4
  <2>6. Splits(T \ {x}) /\ Splits(T \ {z})
    BY <2>1, <2>3
  <2> HIDE DEF x
  <2>7. SumOver(v, T \ {x}) = v[z] + SumOver(v, (T \ {x}) \ {z})
    BY <2>5, <2>6
  <2>8. SumOver(v, T \ {z}) = v[x] + SumOver(v, (T \ {z}) \ {x})
    BY <2>3, <2>5, <2>6
  <2>9. (T \ {x}) \ {z} = (T \ {z}) \ {x}
    OBVIOUS
  <2> DEFINE rest == SumOver(v, (T \ {z}) \ {x})
  <2>10. rest \in Nat
    <3>1. IsFiniteSet((T \ {z}) \ {x}) /\ (T \ {z}) \ {x} \subseteq S
      BY FS_Subset
    <3> QED BY <3>1, SumType
  <2>11. v[x] \in Nat /\ v[z] \in Nat
    BY <2>3
  <2>12. SumOver(v, (T \ {x}) \ {z}) = rest
    BY <2>9, Zenon
  <2>13. SumOver(v, T) = v[x] + (v[z] + rest)
    BY <2>4, <2>7, <2>12
  <2>14. SumOver(v, T \ {z}) = v[x] + rest
    BY <2>8
  <2> HIDE DEF rest
  <2> QED
    BY <2>2, <2>10, <2>11, <2>13, <2>14
<1>2. CASE B = {}
  BY <1>2
<1> QED BY <1>1, <1>2

LEMMA SumSame ==
  ASSUME NEW v, NEW w, NEW S, IsFiniteSet(S), \A x \in S : v[x] = w[x]
  PROVE  SumOver(v, S) = SumOver(w, S)
<1> DEFINE B == {s \in SUBSET S : SumOver(v, s) # SumOver(w, s)}
<1>1. CASE B # {}
  <2>1. PICK T \in B : \A U \in B : U \subseteq T => U = T
    <3>1. B \subseteq SUBSET S
      OBVIOUS
    <3> HIDE DEF B
    <3> QED BY <1>1, <3>1, MinimalSet
  <2>2. Unfolds(v, T) /\ Unfolds(w, T)
    BY FS_Subset, SumUnfolds
  <2>3. T # {}
    BY <2>2 DEF Unfolds
  <2>4. Pick(T) \in T
    BY <2>3 DEF Pick
  <2>5. SumOver(v, T \ {Pick(T)}) = SumOver(w, T \ {Pick(T)})
    BY <2>1, <2>4
  <2> QED
    BY <2>2, <2>3, <2>4, <2>5 DEF Unfolds
<1>2. CASE B = {}
  BY <1>2
<1> QED BY <1>1, <1>2


LEMMA SumLe ==
  ASSUME NEW v, NEW w, NEW S, IsFiniteSet(S),
         \A x \in S : v[x] \in Nat /\ w[x] \in Nat /\ v[x] <= w[x]
  PROVE  SumOver(v, S) <= SumOver(w, S)
<1> DEFINE B == {s \in SUBSET S : ~(SumOver(v, s) <= SumOver(w, s))}
<1>1. CASE B # {}
  <2>1. PICK T \in B : \A U \in B : U \subseteq T => U = T
    <3>1. B \subseteq SUBSET S
      OBVIOUS
    <3> HIDE DEF B
    <3> QED BY <1>1, <3>1, MinimalSet
  <2>2. Unfolds(v, T) /\ Unfolds(w, T)
    BY FS_Subset, SumUnfolds
  <2>3. T # {}
    BY <2>2 DEF Unfolds
  <2>4. Pick(T) \in T
    BY <2>3 DEF Pick
  <2>5. SumOver(v, T \ {Pick(T)}) <= SumOver(w, T \ {Pick(T)})
    BY <2>1, <2>4
  <2>6. IsFiniteSet(T \ {Pick(T)}) /\ T \ {Pick(T)} \subseteq S
    BY FS_Subset
  <2>7. /\ SumOver(v, T \ {Pick(T)}) \in Nat
        /\ SumOver(w, T \ {Pick(T)}) \in Nat
    BY <2>6, SumType
  <2> QED
    BY <2>2, <2>3, <2>4, <2>5, <2>7 DEF Unfolds
<1>2. CASE B = {}
  BY <1>2
<1> QED BY <1>1, <1>2

LEMMA SumZero ==
  ASSUME NEW v, NEW S, IsFiniteSet(S), \A x \in S : v[x] = 0
  PROVE  SumOver(v, S) = 0
<1> DEFINE B == {s \in SUBSET S : SumOver(v, s) # 0}
<1>1. CASE B # {}
  <2>1. PICK T \in B : \A U \in B : U \subseteq T => U = T
    <3>1. B \subseteq SUBSET S
      OBVIOUS
    <3> HIDE DEF B
    <3> QED BY <1>1, <3>1, MinimalSet
  <2>2. Unfolds(v, T)
    BY FS_Subset, SumUnfolds
  <2>3. T # {}
    BY <2>2 DEF Unfolds
  <2>4. Pick(T) \in T
    BY <2>3 DEF Pick
  <2>5. SumOver(v, T \ {Pick(T)}) = 0
    BY <2>1, <2>4
  <2> QED BY <2>2, <2>3, <2>4, <2>5 DEF Unfolds
<1>2. CASE B = {}
  BY <1>2
<1> QED BY <1>1, <1>2

\* One amount of the sum changes.
LEMMA SumChange ==
  ASSUME NEW v, NEW w, NEW S, IsFiniteSet(S), NEW y \in S,
         \A x \in S : v[x] \in Nat /\ w[x] \in Nat,
         \A x \in S \ {y} : v[x] = w[x]
  PROVE  /\ SumOver(v, S) \in Nat /\ SumOver(w, S) \in Nat
         /\ SumOver(w, S) = SumOver(v, S) - v[y] + w[y]
<1>1. SumOver(v, S) = v[y] + SumOver(v, S \ {y})
  BY SumRemove
<1>2. SumOver(w, S) = w[y] + SumOver(w, S \ {y})
  BY SumRemove
<1>3. IsFiniteSet(S \ {y})
  BY FS_Subset
<1>4. SumOver(v, S \ {y}) = SumOver(w, S \ {y})
  BY <1>3, SumSame
<1>5. SumOver(v, S \ {y}) \in Nat
  BY <1>3, SumType
<1>6. SumOver(v, S) \in Nat /\ SumOver(w, S) \in Nat
  BY SumType
<1> QED BY <1>1, <1>2, <1>4, <1>5, <1>6

LEMMA UsedSum ==
  ASSUME NEW ps, NEW u, NEW S \in SUBSET Periods
  PROVE  MapThenSumSet(LAMBDA w : ps[w].used[u], S) = SumOver(UsedIn(ps, u), S)
<1> DEFINE Same(g) == g = [s \in SUBSET S |-> IF s = {} THEN 0
                             ELSE ps[Pick(s)].used[u] + g[s \ {Pick(s)}]]
<1>1. MapThenSumSet(LAMBDA w : ps[w].used[u], S) = (CHOOSE g : Same(g))[S]
  BY Zenon DEF MapThenSumSet, MapThenFoldSet, Pick
<1>2. ASSUME NEW s \in SUBSET S, s # {}
      PROVE  UsedIn(ps, u)[Pick(s)] = ps[Pick(s)].used[u]
  <2>1. Pick(s) \in Periods
    BY <1>2 DEF Pick
  <2> QED BY <2>1 DEF UsedIn
<1>3. ASSUME NEW g PROVE Same(g) <=> Sums(g, UsedIn(ps, u), S)
  <2>1. \A s \in SUBSET S :
          (IF s = {} THEN 0 ELSE ps[Pick(s)].used[u] + g[s \ {Pick(s)}])
          = (IF s = {} THEN 0 ELSE UsedIn(ps, u)[Pick(s)] + g[s \ {Pick(s)}])
    BY <1>2
  <2>2. [s \in SUBSET S |-> IF s = {} THEN 0
                            ELSE ps[Pick(s)].used[u] + g[s \ {Pick(s)}]]
        = [s \in SUBSET S |-> IF s = {} THEN 0
                              ELSE UsedIn(ps, u)[Pick(s)] + g[s \ {Pick(s)}]]
    BY <2>1
  <2> QED BY <2>2, Zenon DEF Sums
<1>4. (CHOOSE g : Same(g)) = (CHOOSE g : Sums(g, UsedIn(ps, u), S))
  <2> HIDE DEF Same
  <2> QED BY <1>3
<1> QED
  BY <1>1, <1>4, SumDef

LEMMA Least ==
  ASSUME NEW S \in SUBSET Nat, S # {}
  PROVE  Min(S) \in S
<1>1. PICK m \in S : \A k \in S : ~(<<k, m>> \in OpToRel(<, Nat))
  BY NatLessThanWellFounded, WFMin, Zenon
<1>2. ASSUME NEW k \in S PROVE m <= k
  <2>1. k \in Nat /\ m \in Nat /\ ~(k < m)
    BY <1>1 DEF OpToRel
  <2> QED BY <2>1
<1>3. \E m2 \in S : \A k \in S : m2 =< k
  BY <1>2
<1> QED BY <1>3, Zenon DEF Min

-----------------------------------------------------------------------------
(* What every step preserves                                               *)

LEMMA UnitsAre ==
    /\ "tokens" \in Units /\ "credits" \in Units
    /\ \A op : Unit(op) \in Units
    /\ Unused \in Used /\ \A u \in Units : Unused[u] = 0
BY DEF Units, Unit, Unused, Used

LEMMA TotalsAre ==
    /\ \A plan \in Plans : Total[plan] \in Nat
    /\ FreeTotal \in Nat /\ FreeLength \in Nat \ {0}
    /\ PeriodLength \in Nat \ {0}
    /\ \E plan \in Plans : TRUE
BY TotalAssumption, IdsAssumption

LEMMA NewCapped == NewPeriod \in Period /\ Capped(NewPeriod)
<1>1. PICK plan \in Plans : Total[plan] \in Nat
  BY TotalsAre
<1>2. NewPeriod \in Period
  BY UnitsAre DEF NewPeriod, Period
<1>3. NewPeriod.total = 0 /\ \A u \in Units : NewPeriod.used[u] = 0
  BY UnitsAre DEF NewPeriod
<1> QED BY <1>1, <1>2, <1>3 DEF Capped

LEMMA IdleSound ==
    /\ Idle \in Request /\ Idle.at = "idle" /\ Idle.op = "none"
    /\ NewSub \in Sub /\ Idle.row = NewPeriod
    /\ \A sb : OpSound(Idle, sb)
<1>1. NewSub \in Sub
  BY DEF NewSub, Sub
<1>2. Idle \in Request /\ Idle.at = "idle" /\ Idle.op = "none"
      /\ Idle.row = NewPeriod
  BY <1>1, NewCapped DEF Idle, Request, Steps, Operations
<1> QED BY <1>1, <1>2, NewCapped DEF OpSound

\* An operation under way has not the step of an idle one.
LEMMA UnderWay ==
    ASSUME NEW p \in Requests, req[p].at # "idle"
    PROVE  ~Free(p)
BY IdleSound DEF Free

LEMMA FinishIs ==
    ASSUME NEW p
    PROVE  Finish(p) <=> req' = [req EXCEPT ![p] = Idle]
BY DEF Finish, Load

LEMMA StepKeeps ==
    ASSUME IInv, NEW p \in Requests, NEW v \in Request,
           req' = [req EXCEPT ![p] = v], OpSound(v, subs'),
           now' \in Nat, subs' \in [Subs -> Sub],
           periods' \in [Periods -> Period],
           grant' \in [until : Nat, used : Used], holds' \in [Holds -> Hold],
           usage' \in Used, media' \in [Holds -> Nat],
           stops' \in 0..MaxDisturbed, overlaps' \in 0..MaxDisturbed,
           \A s \in Subs : subs[s].plan # Nobody => subs'[s].plan # Nobody,
           \A i \in Periods : Capped(periods'[i]),
           \A u \in Units : grant'.used[u] <= FreeTotal,
           \A u \in Units : Ledger(u, periods', req', grant', usage'),
           \A h \in Holds : holds'[h].status = "settled" => media'[h] >= 1,
           Granting',
           overlaps' = 0 =>
             /\ \A o \in Requests \ {p} : Free(o)
             /\ InTurn(v, subs', periods', grant', holds', usage', media',
                       stops')
    PROVE  IInv'
<1>1. req' \in [Requests -> Request] /\ req'[p] = v
      /\ \A o \in Requests \ {p} : req'[o] = req[o]
  BY DEF IInv, TypeOK, Request
<1>2. TypeOK'
  BY <1>1 DEF TypeOK, Request
<1>3. \A o \in Requests : OpSound(req'[o], subs')
  <2> SUFFICES ASSUME NEW o \in Requests \ {p} PROVE OpSound(req[o], subs')
    BY <1>1
  <2>1. OpSound(req[o], subs)
    BY DEF IInv
  <2> QED BY <2>1 DEF OpSound
<1>4. Serial'
  BY <1>1 DEF Serial, Turn, Free
<1>5. (\A u \in Units : Ledger(u, periods, req, grant, usage))'
  OBVIOUS
<1> QED BY <1>2, <1>3, <1>4, <1>5 DEF IInv, Capped, OpSound

-----------------------------------------------------------------------------
(* The ledger                                                              *)

\* Money and the rows stay; a copy that will be saved was just loaded, or was
\* there before.
LEMMA LedgerRests ==
    ASSUME IInv, NEW p \in Requests, NEW v \in Request,
           req' = [req EXCEPT ![p] = v],
           \/ v.at \notin {"keep", "resave"}
           \/ v.period \in Periods /\ v.row.used = periods[v.period].used,
           NEW u \in Units
    PROVE  Ledger(u, periods, req', grant, usage)
<1>1. PICK c \in [Periods -> Nat] : Bounds(c, u, periods, req, grant, usage)
  BY DEF IInv, Ledger
<1>2. \A o \in Requests : req'[o] = IF o = p THEN v ELSE req[o]
  BY DEF IInv, TypeOK
<1>3. Bounds(c, u, periods, req', grant, usage)
  BY <1>1, <1>2 DEF Bounds
<1> QED BY <1>3 DEF Ledger

\* A charge: the period takes k, the grant f or nothing.
LEMMA LedgerCharges ==
    ASSUME IInv, NEW p \in Requests, req' = [req EXCEPT ![p] = Idle],
           NEW i \in Periods, NEW k \in Nat, NEW f \in Nat, NEW w \in Units,
           periods' = [periods EXCEPT ![i] = Charged(@, w, k)],
           grant' = Charged(grant, w, f) \/ grant' = grant,
           usage' = [usage EXCEPT ![w] = @ + (k + f)],
           NEW u \in Units
    PROVE  Ledger(u, periods', req', grant', usage')
<1>1. PICK c \in [Periods -> Nat] : Bounds(c, u, periods, req, grant, usage)
  BY DEF IInv, Ledger
<1>2. \A o \in Requests : req'[o] = IF o = p THEN Idle ELSE req[o]
  BY DEF IInv, TypeOK
<1>3. /\ \A j \in Periods : periods[j].used \in [Units -> Nat]
      /\ grant.used \in [Units -> Nat] /\ usage \in [Units -> Nat]
  BY DEF IInv, TypeOK, Period, Used
<1>4. \A j \in Periods :
        periods'[j].used[u] = IF j = i /\ u = w THEN periods[j].used[u] + k
                              ELSE periods[j].used[u]
  BY <1>3 DEF IInv, TypeOK, Charged, Period
<1>5. /\ usage'[u] = IF u = w THEN usage[u] + (k + f) ELSE usage[u]
      /\ grant'.used[u] <= IF u = w THEN grant.used[u] + f ELSE grant.used[u]
      /\ grant'.used[u] \in Nat
  <2>1. usage'[u] = IF u = w THEN usage[u] + (k + f) ELSE usage[u]
    BY <1>3
  <2>2. grant \in [until : Nat, used : Used]
    BY DEF IInv, TypeOK
  <2>3. CASE grant' = Charged(grant, w, f)
    BY <1>3, <2>1, <2>2, <2>3 DEF Charged
  <2>4. CASE grant' = grant
    BY <1>3, <2>1, <2>4
  <2> QED BY <2>3, <2>4
<1> DEFINE d == [c EXCEPT ![i] = @ + (IF u = w THEN k ELSE 0)]
<1>6. /\ d \in [Periods -> Nat] /\ d[i] = c[i] + (IF u = w THEN k ELSE 0)
      /\ \A j \in Periods \ {i} : c[j] = d[j]
  OBVIOUS
<1> HIDE DEF d
<1>7. /\ SumOver(c, Periods) \in Nat /\ SumOver(d, Periods) \in Nat
      /\ SumOver(d, Periods) = SumOver(c, Periods) - c[i] + d[i]
  <2>1. \A j \in Periods : c[j] \in Nat /\ d[j] \in Nat
    BY <1>6
  <2>2. \A j \in Periods \ {i} : c[j] = d[j]
    BY <1>6
  <2>3. IsFiniteSet(Periods)
    BY IdsAssumption
  <2> QED BY <2>1, <2>2, <2>3, SumChange
<1>8. \A j \in Periods : c[j] \in Nat /\ c[j] <= d[j]
  BY <1>6
<1>9. Bounds(d, u, periods', req', grant', usage')
  <2>1. ASSUME NEW j \in Periods PROVE periods'[j].used[u] <= d[j]
    <3>1. periods[j].used[u] <= c[j] /\ periods[j].used[u] \in Nat
      BY <1>1, <1>3 DEF Bounds
    <3> QED BY <1>4, <1>6, <1>8, <3>1
  <2>2. ASSUME NEW o \in Requests, req'[o].at \in {"keep", "resave"}
        PROVE  req'[o].row.used[u] <= d[req'[o].period]
    <3>1. req'[o] = req[o]
      BY <1>2, <2>2, IdleSound
    <3>2. req[o].row.used[u] <= c[req[o].period]
      BY <1>1, <2>2, <3>1 DEF Bounds
    <3>3. req[o].period \in Periods /\ req[o].row.used[u] \in Nat
      BY <2>2, <3>1 DEF IInv, OpSound, TypeOK, Period, Used
    <3> QED BY <1>8, <1>6, <3>1, <3>2, <3>3
  <2>3. SumOver(d, Periods) + grant'.used[u] <= usage'[u]
    <3>1. SumOver(c, Periods) + grant.used[u] <= usage[u]
      BY <1>1 DEF Bounds
    <3>2. grant.used[u] \in Nat /\ usage[u] \in Nat /\ c[i] \in Nat
      BY <1>3
    <3> QED BY <1>5, <1>6, <1>7, <3>1, <3>2
  <2> QED BY <2>1, <2>2, <2>3 DEF Bounds
<1> QED BY <1>6, <1>9 DEF Ledger

-----------------------------------------------------------------------------
(* The start, and operations that begin                                    *)

LEMMA InitIInv == Init => IInv
<1> SUFFICES ASSUME Init PROVE IInv OBVIOUS
<1> USE DEF Init
<1>1. TypeOK
  <2>1. subs \in [Subs -> Sub] /\ periods \in [Periods -> Period]
    BY IdleSound, NewCapped
  <2>2. grant \in [until : Nat, used : Used] /\ usage \in Used
    BY UnitsAre
  <2>3. holds \in [Holds -> Hold] /\ media \in [Holds -> Nat]
    BY DEF Hold
  <2>4. req \in [Requests -> Request]
    BY IdleSound
  <2>5. stops \in 0..MaxDisturbed /\ overlaps \in 0..MaxDisturbed /\ now \in Nat
    BY BoundAssumption
  <2> QED BY <2>1, <2>2, <2>3, <2>4, <2>5 DEF TypeOK, Request
<1>2. /\ \A p \in Requests : OpSound(req[p], subs)
      /\ \A i \in Periods : Capped(periods[i])
      /\ \A h \in Holds : holds[h].status = "settled" => media[h] >= 1
  BY IdleSound, NewCapped
<1>3. \A u \in Units : grant.used[u] = 0 /\ grant.used[u] <= FreeTotal
  BY UnitsAre, TotalsAre
<1>4. ASSUME NEW u \in Units
      PROVE  /\ Ledger(u, periods, req, grant, usage)
             /\ SumOver(UsedIn(periods, u), Periods) + grant.used[u] = usage[u]
  <2> DEFINE c == UsedIn(periods, u)
  <2>1. c \in [Periods -> Nat] /\ \A i \in Periods : c[i] = 0
    BY UnitsAre DEF UsedIn, NewPeriod
  <2>2. SumOver(c, Periods) = 0
    <3> HIDE DEF c
    <3> QED BY <2>1, IdsAssumption, SumZero
  <2>3. usage[u] = 0 /\ \A i \in Periods : periods[i].used[u] = 0
    BY UnitsAre DEF NewPeriod
  <2>4. \A p \in Requests : req[p].at = "idle"
    BY IdleSound
  <2> HIDE DEF c
  <2>5. Bounds(c, u, periods, req, grant, usage)
    BY <1>3, <2>1, <2>2, <2>3, <2>4 DEF Bounds
  <2>6. SumOver(c, Periods) + grant.used[u] = usage[u]
    BY <1>3, <2>2, <2>3
  <2> QED BY <2>1, <2>5, <2>6 DEF Ledger, c
<1>5. Active = {}
  BY DEF Active, NewSub
<1>6. Granting
  BY <1>5 DEF Granting
<1>7. Serial
  <2>1. Charge(Idle, periods, grant, usage)
    BY <1>4, IdleSound DEF Charge, NewPeriod
  <2>2. Bill(Idle, holds, media)
    BY IdleSound DEF Bill
  <2>3. Once(Idle, subs, periods)
    BY IdleSound DEF Once, NewPeriod
  <2>4. Follow(Idle, subs, periods)
    BY DEF Follow, NewSub
  <2> QED BY <2>1, <2>2, <2>3, <2>4 DEF Serial, Quiet, Free, Turn, InTurn
<1> QED BY <1>1, <1>2, <1>3, <1>4, <1>6, <1>7 DEF IInv

\* Whoever is going to issue the grant still is.
LEMMA GrantingRests ==
    ASSUME IInv, NEW p \in Requests, NEW v \in Request,
           req' = [req EXCEPT ![p] = v],
           stops' = 0 => stops = 0,
           grant.until > 0 => grant'.until > 0,
           Active' # {} => Active # {},
           req[p].at \in {"first", "give"} => v.at \in {"first", "give"}
    PROVE  Granting'
<1>1. \A o \in Requests : req'[o] = IF o = p THEN v ELSE req[o]
  BY DEF IInv, TypeOK
<1>2. ASSUME stops' = 0, Active' # {}, ~(grant'.until > 0)
      PROVE  \E o \in Requests : req'[o].at \in {"first", "give"}
  <2>1. stops = 0 /\ Active # {} /\ ~(grant.until > 0)
    BY <1>2
  <2>2. PICK o \in Requests : req[o].at \in {"first", "give"}
    BY <2>1 DEF IInv, Granting
  <2> QED BY <1>1, <2>2
<1> QED BY <1>2 DEF Granting

LEMMA BeginKeeps ==
    ASSUME IInv, NEW p \in Requests, NEW v \in Request, Begin(p, v),
           OpSound(v, subs), v.at \notin {"keep", "resave"},
           Turn(Idle) => Turn(v)
    PROVE  IInv'
<1>1. /\ req' = [req EXCEPT ![p] = v] /\ req[p] = Idle
      /\ UNCHANGED <<now, subs, periods, grant, usage, holds, media, stops>>
  BY DEF Begin, Load, Free, tables, quota
<1>2. overlaps' = 0 => overlaps = 0 /\ Quiet
  BY DEF Begin, IInv, TypeOK
<1>3. overlaps' \in 0..MaxDisturbed
  BY BoundAssumption DEF Begin, IInv, TypeOK
<1>4. overlaps' = 0 => /\ \A o \in Requests \ {p} : Free(o)
                       /\ Turn(v)
  BY <1>2 DEF IInv, Serial, Quiet, Free
<1>5. \A u \in Units : Ledger(u, periods', req', grant', usage')
  BY <1>1, LedgerRests
<1>6. Granting'
  BY <1>1, IdleSound, GrantingRests DEF Active
<1>7. TypeOK
  BY DEF IInv
<1>8. /\ \A i \in Periods : Capped(periods'[i])
      /\ \A u \in Units : grant'.used[u] <= FreeTotal
      /\ \A h \in Holds : holds'[h].status = "settled" => media'[h] >= 1
      /\ \A s \in Subs : subs[s].plan # Nobody => subs'[s].plan # Nobody
      /\ OpSound(v, subs')
  BY <1>1 DEF IInv
<1>9. overlaps' = 0 =>
        /\ \A o \in Requests \ {p} : Free(o)
        /\ InTurn(v, subs', periods', grant', holds', usage', media', stops')
  BY <1>1, <1>4 DEF Turn
<1>10. /\ now' \in Nat /\ subs' \in [Subs -> Sub]
       /\ periods' \in [Periods -> Period]
       /\ grant' \in [until : Nat, used : Used] /\ holds' \in [Holds -> Hold]
       /\ usage' \in Used /\ media' \in [Holds -> Nat]
       /\ stops' \in 0..MaxDisturbed
  BY <1>1, <1>7 DEF TypeOK
<1> QED BY <1>1, <1>3, <1>5, <1>6, <1>8, <1>9, <1>10, StepKeeps

\* An operation that charges, or asks for the quota, begins.
LEMMA ChargingBegins ==
    ASSUME IInv, NEW p \in Requests, NEW v \in Request, Begin(p, v),
           v.at = "ensure", v.op \in {"query", "usage", "hold", "settle"},
           v.sub \in Active, v.copy = subs[v.sub], v.row = NewPeriod,
           v.op \in {"hold", "settle"} => v.hold \in Holds,
           v.op = "settle" => Frozen(v.hold)
    PROVE  IInv'
<1>1. v.sub \in Subs /\ subs[v.sub].plan # Nobody
  BY DEF Active
<1>2. OpSound(v, subs)
  BY <1>1, NewCapped DEF OpSound, Charging
<1>3. ASSUME Turn(Idle) PROVE Turn(v)
  <2>1. Charge(Idle, periods, grant, usage) => Charge(v, periods, grant, usage)
    BY DEF Charge
  <2>2. Bill(Idle, holds, media) => Bill(v, holds, media)
    BY DEF Bill, Frozen
  <2>3. Once(Idle, subs, periods) => Once(v, subs, periods)
    BY DEF Once
  <2>4. Follow(Idle, subs, periods) => Follow(v, subs, periods)
    BY IdleSound DEF Follow
  <2> QED BY <1>3, <2>1, <2>2, <2>3, <2>4 DEF Turn, InTurn
<1> QED BY <1>2, <1>3, BeginKeeps

LEMMA WithIs ==
    ASSUME TypeOK, NEW op \in Operations, NEW s \in Active
    PROVE  /\ With(op, s) \in Request /\ With(op, s).at = "ensure"
           /\ With(op, s).op = op /\ With(op, s).sub = s
           /\ With(op, s).copy = subs[s] /\ With(op, s).row = NewPeriod
           /\ With(op, s).hold = Nobody
<1>1. subs[s] \in Sub /\ subs[s].plan \in Plans \cup {Nobody} /\ s \in Subs
  BY DEF TypeOK, Active, Sub
<1> QED BY <1>1, IdleSound DEF With, Request, Idle, Steps

LEMMA StartQueryKeeps ==
    ASSUME IInv, NEW p \in Requests, StartQuery(p)
    PROVE  IInv'
<1>1. PICK s \in Active : Begin(p, With("query", s))
  BY DEF StartQuery
<1>2. "query" \in Operations /\ TypeOK
  BY DEF Operations, IInv
<1> QED BY <1>1, <1>2, WithIs, ChargingBegins

LEMMA StartUsageKeeps ==
    ASSUME IInv, NEW p \in Requests, NEW n \in Amounts, StartUsage(p, n)
    PROVE  IInv'
<1>1. PICK s \in Active : Begin(p, [With("usage", s) EXCEPT !.amount = n])
  BY DEF StartUsage
<1> DEFINE w == With("usage", s)
           v == [w EXCEPT !.amount = n]
<1>2. "usage" \in Operations /\ TypeOK /\ n \in Nat
  BY DEF Operations, IInv, Amounts
<1>3. /\ w \in Request /\ w.at = "ensure" /\ w.op = "usage" /\ w.sub = s
      /\ w.copy = subs[s] /\ w.row = NewPeriod
  BY <1>2, WithIs
<1> HIDE DEF w
<1>4. /\ v \in Request /\ v.at = "ensure" /\ v.op = "usage" /\ v.sub = s
      /\ v.copy = subs[s] /\ v.row = NewPeriod
  BY <1>2, <1>3 DEF Request
<1>5. Begin(p, v)
  BY <1>1 DEF w
<1> HIDE DEF v
<1> QED BY <1>4, <1>5, ChargingBegins

LEMMA StartHoldKeeps ==
    ASSUME IInv, NEW p \in Requests, NEW h \in Holds,
           NEW n \in Amounts \cup Estimates,
           StartHold(p, h, n) \/ StartSettle(p, h, n)
    PROVE  IInv'
<1>1. PICK s \in Active, op \in {"hold", "settle"} :
        /\ Begin(p, [With(op, s) EXCEPT !.hold = h, !.amount = n])
        /\ op = "settle" => Frozen(h)
  <2>1. CASE StartHold(p, h, n)
    BY <2>1, Zenon DEF StartHold
  <2>2. CASE StartSettle(p, h, n)
    BY <2>2, Zenon DEF StartSettle
  <2> QED BY <2>1, <2>2, Zenon
<1> DEFINE w == With(op, s)
           v == [w EXCEPT !.hold = h, !.amount = n]
<1>2. op \in Operations /\ TypeOK /\ n \in Nat
  <2>1. op \in Operations
    BY DEF Operations
  <2>2. n \in Nat
    <3>1. MaxUsage \in Nat /\ Estimates \subseteq Nat
      BY TotalAssumption, BoundAssumption
    <3> QED BY <3>1 DEF Amounts
  <2> QED BY <2>1, <2>2 DEF IInv
<1>3. /\ w \in Request /\ w.at = "ensure" /\ w.op = op /\ w.sub = s
      /\ w.copy = subs[s] /\ w.row = NewPeriod
  BY <1>2, WithIs
<1> HIDE DEF w
<1>4. /\ v \in Request /\ v.at = "ensure" /\ v.op = op /\ v.sub = s
      /\ v.copy = subs[s] /\ v.row = NewPeriod /\ v.hold = h
  BY <1>2, <1>3 DEF Request
<1>5. Begin(p, v)
  BY <1>1 DEF w
<1> HIDE DEF v
<1> QED BY <1>1, <1>4, <1>5, ChargingBegins

LEMMA StartRefundKeeps ==
    ASSUME IInv, NEW p \in Requests, NEW h \in Holds, StartRefund(p, h)
    PROVE  IInv'
<1> DEFINE v == [Idle EXCEPT !.at = "release", !.op = "refund", !.hold = h]
<1>1. /\ v \in Request /\ v.at = "release" /\ v.op = "refund" /\ v.hold = h
      /\ v.row = NewPeriod
  BY IdleSound DEF Request, Steps, Operations, Idle
<1>2. Begin(p, v) /\ Frozen(h)
  BY DEF StartRefund
<1> HIDE DEF v
<1>3. OpSound(v, subs)
  BY <1>1, NewCapped DEF OpSound
<1>4. ASSUME Turn(Idle) PROVE Turn(v)
  <2>1. Charge(Idle, periods, grant, usage) => Charge(v, periods, grant, usage)
    BY <1>1 DEF Charge
  <2>2. Bill(Idle, holds, media) => Bill(v, holds, media)
    BY <1>1, <1>2 DEF Bill, Frozen
  <2>3. Once(Idle, subs, periods) => Once(v, subs, periods)
    BY <1>1 DEF Once
  <2>4. Follow(Idle, subs, periods) => Follow(v, subs, periods)
    BY IdleSound DEF Follow
  <2> QED BY <1>4, <2>1, <2>2, <2>3, <2>4 DEF Turn, InTurn
<1> QED BY <1>1, <1>2, <1>3, <1>4, BeginKeeps

LEMMA StartChangeKeeps ==
    ASSUME IInv, NEW p \in Requests, NEW plan \in Plans, StartChange(p, plan)
    PROVE  IInv'
<1> DEFINE Change(s, v) ==
        \/ v = [With("upgrade", s) EXCEPT !.at = "plan", !.plan = plan,
                  !.copy = [@ EXCEPT !.plan = plan, !.pending = Nobody]]
        \/ v = [With("downgrade", s) EXCEPT !.at = "plan",
                  !.copy = Downgraded(@, plan)]
<1>0. PICK s \in Active : \E v : Begin(p, v) /\ Change(s, v)
  BY Zenon DEF StartChange
<1>1. PICK v : Begin(p, v) /\ Change(s, v)
  BY Zenon, <1>0
<1>2. "upgrade" \in Operations /\ "downgrade" \in Operations /\ TypeOK
  BY DEF Operations, IInv
<1>3. /\ s \in Subs /\ subs[s] \in Sub /\ subs[s].plan # Nobody
      /\ plan # Nobody
  BY <1>2, IdsAssumption DEF TypeOK, Active
<1>4. /\ v \in Request /\ v.at = "plan" /\ v.sub = s
      /\ v.row = NewPeriod /\ v.copy.end = subs[s].end
      /\ v.copy.plan # Nobody
      /\ \/ v.op = "upgrade"
         \/ v.op = "downgrade" /\ v.copy.plan = subs[s].plan
  <2>1. CASE v = [With("upgrade", s) EXCEPT !.at = "plan", !.plan = plan,
                    !.copy = [@ EXCEPT !.plan = plan, !.pending = Nobody]]
    <3> DEFINE w == With("upgrade", s)
    <3>1. /\ w \in Request /\ w.op = "upgrade" /\ w.sub = s
          /\ w.copy = subs[s] /\ w.row = NewPeriod
      BY <1>2, WithIs
    <3> HIDE DEF w
    <3> DEFINE c == [subs[s] EXCEPT !.plan = plan, !.pending = Nobody]
    <3>2. v = [w EXCEPT !.at = "plan", !.plan = plan, !.copy = c]
      BY <2>1, <3>1 DEF w
    <3>3. c \in Sub /\ c.end = subs[s].end /\ c.plan = plan
      BY <1>3 DEF Sub
    <3> HIDE DEF c
    <3> QED BY <1>3, <3>1, <3>2, <3>3 DEF Request, Steps
  <2>2. CASE v = [With("downgrade", s) EXCEPT !.at = "plan",
                    !.copy = Downgraded(@, plan)]
    <3> DEFINE w == With("downgrade", s)
    <3>1. /\ w \in Request /\ w.op = "downgrade" /\ w.sub = s
          /\ w.copy = subs[s] /\ w.row = NewPeriod
      BY <1>2, WithIs
    <3> HIDE DEF w
    <3> DEFINE c == [subs[s] EXCEPT !.pending = plan]
    <3>2. v = [w EXCEPT !.at = "plan", !.copy = c]
      BY <2>2, <3>1 DEF w, Downgraded
    <3>3. c \in Sub /\ c.end = subs[s].end /\ c.plan = subs[s].plan
      BY <1>3 DEF Sub
    <3> HIDE DEF c
    <3> QED BY <1>3, <3>1, <3>2, <3>3 DEF Request, Steps
  <2> QED BY <1>1, <2>1, <2>2
<1>5. OpSound(v, subs)
  BY <1>3, <1>4, NewCapped DEF OpSound
<1>6. ASSUME Turn(Idle) PROVE Turn(v)
  <2>1. Charge(Idle, periods, grant, usage) => Charge(v, periods, grant, usage)
    BY <1>4 DEF Charge
  <2>2. Bill(Idle, holds, media) => Bill(v, holds, media)
    BY <1>4 DEF Bill
  <2>3. Once(Idle, subs, periods) => Once(v, subs, periods)
    BY <1>4 DEF Once
  <2>4. Follow(Idle, subs, periods) => Follow(v, subs, periods)
    BY IdleSound DEF Follow
  <2> QED BY <1>6, <2>1, <2>2, <2>3, <2>4 DEF Turn, InTurn
<1> QED BY <1>1, <1>4, <1>5, <1>6, BeginKeeps

LEMMA StartActivateKeeps ==
    ASSUME IInv, NEW p \in Requests, NEW plan \in Plans, StartActivate(p, plan)
    PROVE  IInv'
<1> DEFINE v == [Idle EXCEPT !.at = "subscribe", !.op = "activate",
                             !.plan = plan]
<1>1. /\ v \in Request /\ v.at = "subscribe" /\ v.op = "activate"
      /\ v.plan = plan /\ v.row = NewPeriod
  BY IdleSound DEF Request, Steps, Operations, Idle
<1>2. Begin(p, v)
  BY DEF StartActivate
<1> HIDE DEF v
<1>3. OpSound(v, subs)
  BY <1>1, NewCapped DEF OpSound
<1>4. ASSUME Turn(Idle) PROVE Turn(v)
  <2>1. Charge(Idle, periods, grant, usage) => Charge(v, periods, grant, usage)
    BY <1>1 DEF Charge
  <2>2. Bill(Idle, holds, media) => Bill(v, holds, media)
    BY <1>1 DEF Bill
  <2>3. Once(Idle, subs, periods) => Once(v, subs, periods)
    BY <1>1 DEF Once
  <2>4. Follow(Idle, subs, periods) => Follow(v, subs, periods)
    BY IdleSound DEF Follow
  <2> QED BY <1>4, <2>1, <2>2, <2>3, <2>4 DEF Turn, InTurn
<1> QED BY <1>1, <1>2, <1>3, <1>4, BeginKeeps

-----------------------------------------------------------------------------
(* The steps that leave the money alone                                    *)

LEMMA OwnTurn ==
    ASSUME IInv, NEW p \in Requests, ~Free(p), overlaps = 0
    PROVE  (\A o \in Requests \ {p} : Free(o)) /\ Turn(req[p])
BY DEF IInv, Serial, Quiet

LEMMA GoesOn ==
    ASSUME IInv, NEW p \in Requests, ~Free(p), NEW v \in Request,
           req' = [req EXCEPT ![p] = v], OpSound(v, subs'),
           UNCHANGED <<now, periods, grant, usage, media, stops, overlaps>>,
           subs' \in [Subs -> Sub], holds' \in [Holds -> Hold],
           \A s \in Subs : subs[s].plan # Nobody => subs'[s].plan # Nobody,
           \/ v.at \notin {"keep", "resave"}
           \/ v.period \in Periods /\ v.row.used = periods[v.period].used,
           \A h \in Holds : holds'[h].status = "settled"
                              => holds[h].status = "settled",
           Granting',
           Turn(req[p]) => InTurn(v, subs', periods, grant, holds', usage,
                                  media, stops)
    PROVE  IInv'
<1>1. \A u \in Units : Ledger(u, periods', req', grant', usage')
  BY LedgerRests
<1>2. TypeOK
  BY DEF IInv
<1>3. /\ \A i \in Periods : Capped(periods'[i])
      /\ \A u \in Units : grant'.used[u] <= FreeTotal
      /\ \A h \in Holds : holds'[h].status = "settled" => media'[h] >= 1
  BY DEF IInv
<1>4. overlaps' = 0 =>
        /\ \A o \in Requests \ {p} : Free(o)
        /\ InTurn(v, subs', periods', grant', holds', usage', media', stops')
  BY OwnTurn
<1>5. /\ now' \in Nat /\ periods' \in [Periods -> Period]
      /\ grant' \in [until : Nat, used : Used]
      /\ usage' \in Used /\ media' \in [Holds -> Nat]
      /\ stops' \in 0..MaxDisturbed /\ overlaps' \in 0..MaxDisturbed
  BY <1>2 DEF TypeOK
<1> QED BY <1>1, <1>3, <1>4, <1>5, StepKeeps

\* A subscription that is saved was in force before.
LEMMA SubSaved ==
    ASSUME TypeOK, NEW s \in Subs, NEW row \in Sub,
           subs' = [subs EXCEPT ![s] = row], row.plan # Nobody
    PROVE  /\ subs' \in [Subs -> Sub] /\ subs'[s] = row
           /\ \A t \in Subs \ {s} : subs'[t] = subs[t]
           /\ \A t \in Subs : subs[t].plan # Nobody => subs'[t].plan # Nobody
           /\ subs[s].plan # Nobody => Active' = Active
<1>1. /\ subs' \in [Subs -> Sub] /\ subs'[s] = row
      /\ \A t \in Subs \ {s} : subs'[t] = subs[t]
  BY DEF TypeOK
<1> QED BY <1>1 DEF Active

LEMMA SavePlanKeeps ==
    ASSUME IInv, NEW p \in Requests, SavePlan(p)
    PROVE  IInv'
<1> DEFINE q == req[p]
           v == IF q.op = "upgrade" THEN [q EXCEPT !.at = "ensure"] ELSE Idle
<1>1. q.at = "plan" /\ ~Free(p) /\ TypeOK
  BY UnderWay DEF SavePlan, At, IInv
<1>2. /\ q \in Request /\ OpSound(q, subs) /\ q.sub \in Subs
      /\ q.copy \in Sub /\ q.copy.plan # Nobody /\ subs[q.sub].plan # Nobody
      /\ q.op \in {"upgrade", "downgrade"}
  BY <1>1 DEF IInv, TypeOK, Request, OpSound
<1>3. /\ req' = [req EXCEPT ![p] = v]
      /\ UNCHANGED <<now, periods, grant, usage, holds, media, stops, overlaps>>
      /\ subs' = [subs EXCEPT ![q.sub] = q.copy]
  BY <1>1 DEF SavePlan, Goto, Finish, Load, quota, TypeOK
<1>4. /\ subs' \in [Subs -> Sub] /\ subs'[q.sub] = q.copy
      /\ \A t \in Subs \ {q.sub} : subs'[t] = subs[t]
      /\ \A t \in Subs : subs[t].plan # Nobody => subs'[t].plan # Nobody
      /\ Active' = Active
  BY <1>1, <1>2, <1>3, SubSaved
<1>5. /\ v \in Request
      /\ \/ q.op = "downgrade" /\ v = Idle
         \/ /\ q.op = "upgrade" /\ v.at = "ensure" /\ v.op = "upgrade"
            /\ v.sub = q.sub /\ v.copy = q.copy /\ v.row = q.row
  BY <1>2, IdleSound DEF Request, Steps
<1> HIDE DEF v
<1>6. OpSound(v, subs')
  BY <1>2, <1>4, <1>5, IdleSound DEF OpSound, Charging
<1>7. Granting'
  BY <1>1, <1>3, <1>4, <1>5, GrantingRests
<1>8. ASSUME Turn(q)
      PROVE  InTurn(v, subs', periods, grant, holds, usage, media, stops)
  <2>1. v.at \notin {"keep", "resave", "commit", "grant", "find", "insert",
                     "first", "plan"}
        /\ v.op \notin {"settle", "refund"}
    BY <1>5, IdleSound
  <2>2. Charge(v, periods, grant, usage) /\ Bill(v, holds, media)
    BY <1>8, <2>1 DEF Turn, InTurn, Charge, Bill
  <2>3. Once(q, subs, periods)
    BY <1>8 DEF Turn, InTurn
  <2>4. q.copy.end = subs[q.sub].end
        /\ (q.op = "downgrade" => q.copy.plan = subs[q.sub].plan)
    BY <1>1, <2>3 DEF Once
  <2>5. \A s \in Subs : subs'[s].end = subs[s].end
    BY <1>4, <2>4
  <2>6. Once(v, subs', periods)
    <3>1. \A i \in Periods : periods[i].sub # Nobody => periods[i].sub \in Subs
      BY <1>1 DEF TypeOK, Period
    <3>2. v.at = "ensure" => v.copy = subs'[v.sub]
      BY <1>4, <1>5, IdleSound
    <3> QED BY <1>4, <2>1, <2>3, <2>5, <3>1, <3>2 DEF Once
  <2>7. Follow(q, subs, periods) => Follow(v, subs', periods)
    <3> SUFFICES ASSUME Follow(q, subs, periods), NEW s \in Subs,
                        subs'[s].plan # Nobody
                 PROVE  Follows(s, subs', periods)
                        \/ (v.op = "upgrade" /\ v.sub = s /\ v.at = "ensure")
      BY DEF Follow
    <3>1. CASE s = q.sub /\ q.op = "upgrade"
      BY <1>5, <3>1
    <3>2. CASE s # q.sub
      BY <1>1, <1>4, <3>2 DEF Follow, Follows
    <3>3. CASE s = q.sub /\ q.op = "downgrade"
      BY <1>1, <1>2, <1>4, <2>4, <3>3 DEF Follow, Follows
    <3> QED BY <1>2, <3>1, <3>2, <3>3
  <2> QED BY <1>8, <2>2, <2>6, <2>7 DEF Turn, InTurn
<1>9. /\ holds' \in [Holds -> Hold] /\ v.at \notin {"keep", "resave"}
      /\ \A h \in Holds : holds'[h].status = "settled"
                            => holds[h].status = "settled"
  BY <1>1, <1>3, <1>5, IdleSound DEF TypeOK
<1> QED BY <1>1, <1>3, <1>4, <1>5, <1>6, <1>7, <1>8, <1>9, GoesOn

LEMMA RollKeeps ==
    ASSUME IInv, NEW p \in Requests, Roll(p)
    PROVE  IInv'
<1> DEFINE q == req[p]
           row == Rolled(q.copy)
           v == [q EXCEPT !.at = "find", !.time = now, !.copy = row]
<1>1. q.at = "ensure" /\ ~Free(p) /\ TypeOK
  BY UnderWay DEF Roll, At, IInv
<1>2. /\ q \in Request /\ OpSound(q, subs) /\ q.sub \in Subs
      /\ q.copy \in Sub /\ q.copy.plan # Nobody /\ subs[q.sub].plan # Nobody
      /\ q.op \in Charging /\ now \in Nat
  BY <1>1 DEF IInv, TypeOK, Request, OpSound
<1>3. row \in Sub /\ row.plan # Nobody /\ row.end = q.copy.end + PeriodLength
  BY <1>2, IdsAssumption, TotalsAre DEF Rolled, Sub
<1> HIDE DEF row
<1>4. /\ req' = [req EXCEPT ![p] = v]
      /\ UNCHANGED <<now, periods, grant, usage, holds, media, stops, overlaps>>
      /\ subs' = [subs EXCEPT ![q.sub] = row]
  BY <1>1 DEF Roll, quota, TypeOK, row
<1>5. /\ subs' \in [Subs -> Sub] /\ subs'[q.sub] = row
      /\ \A t \in Subs \ {q.sub} : subs'[t] = subs[t]
      /\ \A t \in Subs : subs[t].plan # Nobody => subs'[t].plan # Nobody
      /\ Active' = Active
  BY <1>1, <1>2, <1>3, <1>4, SubSaved
<1>6. /\ v \in Request /\ v.at = "find" /\ v.op = q.op /\ v.sub = q.sub
      /\ v.copy = row /\ v.row = q.row /\ v.hold = q.hold
  BY <1>2, <1>3 DEF Request, Steps
<1> HIDE DEF v
<1>7. OpSound(v, subs')
  BY <1>2, <1>3, <1>5, <1>6 DEF OpSound
<1>8. Granting'
  BY <1>1, <1>4, <1>5, <1>6, GrantingRests
<1>9. ASSUME Turn(q)
      PROVE  InTurn(v, subs', periods, grant, holds, usage, media, stops)
  <2>1. Charge(v, periods, grant, usage) /\ Bill(v, holds, media)
    BY <1>6, <1>9 DEF Turn, InTurn, Charge, Bill
  <2>2. Once(q, subs, periods)
    BY <1>9 DEF Turn, InTurn
  <2>3. q.copy = subs[q.sub] /\ subs[q.sub].end \in Nat
    BY <1>1, <1>2, <2>2 DEF Once, Sub
  <2>4. \A i \in Periods : /\ periods[i].sub # Nobody => periods[i].sub \in Subs
                           /\ periods[i].end \in Nat
    BY <1>1 DEF TypeOK, Period
  <2>5. \A i \in Periods : periods[i].sub = q.sub => periods[i].end < row.end
    BY <1>2, <1>3, <2>2, <2>3, <2>4, IdsAssumption, TotalsAre DEF Once
  <2>6. \A i \in Periods : periods[i].sub # Nobody
          => /\ subs'[periods[i].sub].plan # Nobody
             /\ periods[i].end <= subs'[periods[i].sub].end
    <3> SUFFICES ASSUME NEW i \in Periods, periods[i].sub # Nobody
                 PROVE  /\ subs'[periods[i].sub].plan # Nobody
                        /\ periods[i].end <= subs'[periods[i].sub].end
      OBVIOUS
    <3>1. CASE periods[i].sub = q.sub
      <4>1. periods[i].end < row.end
        BY <2>5, <3>1
      <4>2. row.end \in Nat /\ periods[i].end \in Nat
        BY <1>3, <2>4 DEF Sub
      <4>3. subs'[periods[i].sub] = row
        BY <1>5, <3>1
      <4> QED BY <1>3, <4>1, <4>2, <4>3
    <3>2. CASE periods[i].sub # q.sub
      BY <1>5, <2>2, <2>4, <3>2 DEF Once
    <3> QED BY <3>1, <3>2
  <2>7. Once(v, subs', periods)
    BY <1>5, <1>6, <2>2, <2>5, <2>6 DEF Once
  <2>8. ASSUME Follow(q, subs, periods), NEW s \in Subs, subs'[s].plan # Nobody
        PROVE  Follows(s, subs', periods)
    <3>1. CASE s = q.sub
      BY <1>5, <2>4, <2>5, <3>1 DEF Follows
    <3>2. CASE s # q.sub
      BY <1>5, <2>8, <3>2 DEF Follow, Follows
    <3> QED BY <3>1, <3>2
  <2> QED BY <1>9, <2>1, <2>7, <2>8 DEF Turn, InTurn, Follow
<1>10. /\ holds' \in [Holds -> Hold] /\ v.at \notin {"keep", "resave"}
       /\ \A h \in Holds : holds'[h].status = "settled"
                             => holds[h].status = "settled"
  BY <1>1, <1>4, <1>6 DEF TypeOK
<1> QED BY <1>1, <1>4, <1>5, <1>6, <1>7, <1>8, <1>9, <1>10, GoesOn

LEMMA FindPeriodKeeps ==
    ASSUME IInv, NEW p \in Requests, FindPeriod(p)
    PROVE  IInv'
<1> DEFINE q == req[p]
           time == IF At(p, "find") THEN q.time ELSE now
           found == InForce(q.sub, time)
           none == [q EXCEPT !.at = "insert", !.time = 0]
           row(i) == [periods[i] EXCEPT !.total = Total[q.copy.plan]]
           some(i) == [q EXCEPT !.at = "keep", !.time = 0, !.period = i,
                                !.row = row(i), !.copy = NewSub]
<1>1. /\ q.at \in {"find", "ensure"} /\ ~Free(p) /\ TypeOK
      /\ q.at = "ensure" => now < q.copy.end
  <2>1. q.at \in {"find", "ensure"} /\ (q.at = "ensure" => ~Expired(q.copy))
    BY Zenon DEF FindPeriod, At
  <2>2. TypeOK /\ now \in Nat /\ q.copy.end \in Nat
    BY DEF IInv, TypeOK, Sub
  <2> QED BY <2>1, <2>2, UnderWay DEF Expired
<1>2. /\ q \in Request /\ OpSound(q, subs) /\ q.sub \in Subs
      /\ q.copy \in Sub /\ q.copy.plan \in Plans /\ subs[q.sub].plan # Nobody
      /\ q.op \in Charging /\ now \in Nat /\ q.copy.plan # Nobody
  BY <1>1 DEF IInv, TypeOK, Request, OpSound, Sub
<1>3. /\ UNCHANGED <<now, subs, periods, grant, usage, holds, media, stops,
                     overlaps>>
      /\ \/ found = {} /\ req' = [req EXCEPT ![p] = none]
         \/ \E i \in found : req' = [req EXCEPT ![p] = some(i)]
  BY Zenon DEF FindPeriod, Load, tables, quota
<1>4. \A i \in found :
        /\ i \in Periods /\ periods[i].sub = q.sub
        /\ \A j \in Periods :
             periods[j].sub = q.sub => periods[j].end <= periods[i].end
  BY DEF InForce, Latest
<1>5. /\ subs' \in [Subs -> Sub] /\ holds' \in [Holds -> Hold]
      /\ \A s \in Subs : subs[s].plan # Nobody => subs'[s].plan # Nobody
      /\ \A h \in Holds : holds'[h].status = "settled"
                            => holds[h].status = "settled"
      /\ Active' = Active
  BY <1>1, <1>3, Zenon DEF TypeOK, Active
\* The current period, if there is one, is the one that is found.
<1>6. ASSUME Turn(q), NEW j \in Periods, periods[j].sub = q.sub,
             ~(periods[j].end < subs[q.sub].end)
      PROVE  found # {} /\ \A i \in found : i = j
  <2>1. Once(q, subs, periods) /\ q.copy = subs[q.sub]
    BY <1>1, <1>6 DEF Turn, InTurn, Once
  <2>2. q.at = "ensure" /\ now < subs[q.sub].end
    BY <1>1, <1>6, <2>1 DEF Once
  <2>3. \A i \in Periods : periods[i].sub = q.sub
          => periods[i].end <= subs[q.sub].end /\ periods[i].end \in Nat
    BY <1>1, <1>2, <2>1, IdsAssumption DEF Once, TypeOK, Period
  <2>4. subs[q.sub].end \in Nat
    BY <1>1, <1>2 DEF TypeOK, Sub
  <2>5. periods[j].end = subs[q.sub].end
    BY <1>6, <2>3, <2>4
  <2>6. j \in found
    BY <1>1, <1>2, <1>6, <2>2, <2>3, <2>4, <2>5 DEF InForce, Latest, At
  <2>7. ASSUME NEW i \in found PROVE i = j
    <3>1. periods[i].sub = q.sub /\ i \in Periods
          /\ periods[j].end <= periods[i].end
      BY <1>4, <1>6
    <3>2. periods[i].end = periods[j].end
      BY <2>3, <2>4, <2>5, <3>1
    <3> QED BY <1>2, <2>1, <1>6, <3>1, <3>2, IdsAssumption DEF Once
  <2> QED BY <2>6, <2>7
<1> HIDE DEF found
<1>7. CASE found = {} /\ req' = [req EXCEPT ![p] = none]
  <2>1. /\ none \in Request /\ none.at = "insert" /\ none.op = q.op
        /\ none.sub = q.sub /\ none.copy = q.copy /\ none.row = q.row
        /\ none.hold = q.hold
    BY <1>2 DEF Request, Steps
  <2> HIDE DEF none
  <2>2. OpSound(none, subs')
    BY <1>2, <1>3, <2>1, Zenon DEF OpSound
  <2>3. Granting'
    BY <1>1, <1>3, <1>5, <1>7, <2>1, GrantingRests
  <2>4. ASSUME Turn(q)
        PROVE  InTurn(none, subs, periods, grant, holds, usage, media, stops)
    <3>1. Charge(none, periods, grant, usage) /\ Bill(none, holds, media)
      BY <2>1, <2>4 DEF Turn, InTurn, Charge, Bill
    <3>2. Once(q, subs, periods) /\ q.copy = subs[q.sub]
      BY <1>1, <2>4 DEF Turn, InTurn, Once
    <3>3. \A j \in Periods : periods[j].sub = q.sub
            => periods[j].end < q.copy.end
      BY <1>6, <1>7, <2>4, <3>2
    <3>4. Once(none, subs, periods)
      BY <2>1, <3>2, <3>3 DEF Once
    <3>5. ASSUME Follow(q, subs, periods), NEW s \in Subs,
                 subs[s].plan # Nobody
          PROVE  Follows(s, subs, periods)
      <4>1. CASE s = q.sub
        <5>1. \A i \in Periods : periods[i].end \in Nat
          BY <1>1 DEF TypeOK, Period
        <5> QED BY <3>2, <3>3, <4>1, <5>1 DEF Follows
      <4>2. CASE s # q.sub
        BY <3>5, <4>2 DEF Follow
      <4> QED BY <4>1, <4>2
    <3> QED BY <2>4, <3>1, <3>4, <3>5 DEF Turn, InTurn, Follow
  <2> QED BY <1>1, <1>3, <1>5, <1>7, <2>1, <2>2, <2>3, <2>4, GoesOn
<1>8. ASSUME NEW i \in found, req' = [req EXCEPT ![p] = some(i)]
      PROVE  IInv'
  <2> DEFINE v == some(i)
  <2>1. /\ i \in Periods /\ periods[i] \in Period /\ periods[i].sub = q.sub
        /\ Capped(periods[i])
    BY <1>1, <1>4 DEF TypeOK, IInv
  <2>2. /\ row(i) \in Period /\ row(i).sub = q.sub
        /\ row(i).end = periods[i].end /\ row(i).used = periods[i].used
        /\ row(i).total = Total[q.copy.plan]
        /\ periods[i] = [row(i) EXCEPT !.total = periods[i].total]
    BY <1>2, <2>1, TotalsAre DEF Period
  <2>3. Capped(row(i))
    <3>1. \E plan \in Plans : row(i).total <= Total[plan]
      BY <1>2, <2>2, TotalsAre
    <3>2. \A u \in Units : \E plan \in Plans : row(i).used[u] <= Total[plan]
      BY <2>1, <2>2 DEF Capped
    <3> QED BY <3>1, <3>2 DEF Capped
  <2> HIDE DEF row
  <2>4. /\ v \in Request /\ v.at = "keep" /\ v.op = q.op /\ v.sub = q.sub
        /\ v.row = row(i) /\ v.hold = q.hold /\ v.period = i
    BY <1>2, <2>1, <2>2, IdleSound DEF Request, Steps
  <2> HIDE DEF v
  <2>5. OpSound(v, subs')
    BY <1>2, <1>3, <2>1, <2>2, <2>3, <2>4, Zenon DEF OpSound
  <2>6. req' = [req EXCEPT ![p] = v]
    BY <1>8 DEF v
  <2>7. Granting'
    BY <1>1, <1>3, <1>5, <2>4, <2>6, GrantingRests, Zenon
  <2>8. ASSUME Turn(q)
        PROVE  InTurn(v, subs, periods, grant, holds, usage, media, stops)
    <3>1. Charge(v, periods, grant, usage) /\ Bill(v, holds, media)
      BY <1>2, <2>1, <2>2, <2>4, <2>8, IdsAssumption
      DEF Turn, InTurn, Charge, Bill
    <3>2. Once(q, subs, periods) /\ q.copy = subs[q.sub]
      BY <1>1, <2>8 DEF Turn, InTurn, Once
    <3>3. \A j \in Periods :
            periods[j].sub = q.sub /\ periods[j].end = subs[q.sub].end => j = i
      <4> SUFFICES ASSUME NEW j \in Periods, periods[j].sub = q.sub,
                          periods[j].end = subs[q.sub].end
                   PROVE  j = i
        OBVIOUS
      <4>1. ~(periods[j].end < subs[q.sub].end)
        BY <1>1 DEF TypeOK, Period
      <4> QED BY <1>6, <2>8, <4>1
    <3>4. Once(v, subs, periods)
      BY <2>2, <2>4, <3>2, <3>3 DEF Once
    <3>5. ASSUME Follow(q, subs, periods) PROVE Follow(v, subs, periods)
      <4> SUFFICES ASSUME NEW s \in Subs, subs[s].plan # Nobody
                   PROVE  Follows(s, subs, periods)
                          \/ (v.op = "upgrade" /\ v.sub = s /\ v.at = "keep")
        BY DEF Follow
      <4> QED BY <1>1, <2>4, <3>5 DEF Follow
    <3> QED BY <2>8, <3>1, <3>4, <3>5 DEF Turn, InTurn
  <2>9. v.period \in Periods /\ v.row.used = periods[v.period].used
    BY <2>1, <2>2, <2>4
  <2> QED BY <1>1, <1>3, <1>5, <2>4, <2>5, <2>6, <2>7, <2>8, <2>9, GoesOn, Zenon
<1> QED BY <1>3, <1>7, <1>8, Zenon

LEMMA SubscribeKeeps ==
    ASSUME IInv, NEW p \in Requests, Subscribe(p)
    PROVE  IInv'
<1> DEFINE q == req[p]
           row == [plan |-> q.plan, pending |-> Nobody,
                   end |-> now + PeriodLength]
<1>1. q.at = "subscribe" /\ ~Free(p) /\ TypeOK
  BY UnderWay DEF Subscribe, At, IInv
<1>2. q \in Request /\ q.plan \in Plans /\ now \in Nat
  BY <1>1 DEF IInv, TypeOK, Request, OpSound
<1>3. row \in Sub /\ row.plan # Nobody /\ row.plan \in Plans
  BY <1>2, IdsAssumption, TotalsAre DEF Sub
<1> HIDE DEF row
<1>4. PICK s \in Subs \ Active :
        /\ subs' = [subs EXCEPT ![s] = row]
        /\ req' = [req EXCEPT ![p] = [Idle EXCEPT !.at = "first", !.sub = s,
                                                  !.copy = row]]
        /\ UNCHANGED <<now, periods, grant, usage, holds, media, stops,
                       overlaps>>
  BY Zenon DEF Subscribe, Load, quota, row
<1> DEFINE v == [Idle EXCEPT !.at = "first", !.sub = s, !.copy = row]
<1>5. /\ subs' \in [Subs -> Sub] /\ subs'[s] = row
      /\ \A t \in Subs \ {s} : subs'[t] = subs[t]
      /\ \A t \in Subs : subs[t].plan # Nobody => subs'[t].plan # Nobody
      /\ subs[s].plan = Nobody
  BY <1>1, <1>3, <1>4, SubSaved DEF Active
<1>6. /\ v \in Request /\ v.at = "first" /\ v.op = "none" /\ v.sub = s
      /\ v.copy = row /\ v.row = NewPeriod
  BY <1>3, IdleSound DEF Request, Steps, Idle
<1>7. req' = [req EXCEPT ![p] = v]
  BY <1>4
<1> HIDE DEF v
<1>8. OpSound(v, subs')
  BY <1>3, <1>5, <1>6, NewCapped DEF OpSound
<1>9. Granting'
  <2>1. req'[p].at = "first"
    BY <1>1, <1>6, <1>7 DEF TypeOK
  <2> QED BY <2>1 DEF Granting
<1>10. ASSUME Turn(q)
       PROVE  InTurn(v, subs', periods, grant, holds, usage, media, stops)
  <2>1. Charge(v, periods, grant, usage) /\ Bill(v, holds, media)
    BY <1>6, <1>10 DEF Turn, InTurn, Charge, Bill
  <2>2. Once(q, subs, periods)
    BY <1>10 DEF Turn, InTurn
  <2>3. \A i \in Periods :
          /\ periods[i].sub # s
          /\ periods[i].sub # Nobody => periods[i].sub \in Subs
    BY <1>1, <1>5, <2>2, IdsAssumption DEF Once, TypeOK, Period
  <2>4. Once(v, subs', periods)
    BY <1>5, <1>6, <2>2, <2>3 DEF Once
  <2>5. Follow(q, subs, periods) => Follow(v, subs', periods)
    BY <1>1, <1>5, <2>3 DEF Follow, Follows
  <2> QED BY <1>10, <2>1, <2>4, <2>5 DEF Turn, InTurn
<1>11. /\ holds' \in [Holds -> Hold] /\ v.at \notin {"keep", "resave"}
       /\ \A h \in Holds : holds'[h].status = "settled"
                             => holds[h].status = "settled"
  BY <1>1, <1>4, <1>6 DEF TypeOK
<1> QED BY <1>1, <1>4, <1>5, <1>6, <1>7, <1>8, <1>9, <1>10, <1>11, GoesOn

LEMMA ReadGrantKeeps ==
    ASSUME IInv, NEW p \in Requests, ReadGrant(p)
    PROVE  IInv'
<1> DEFINE q == req[p]
           free == Lesser(FreeLeft(Unit(q.op)), q.amount)
           frz == [q EXCEPT !.row = NewPeriod, !.plan = Nobody, !.sub = Nobody,
                            !.at = "freeze", !.period = Nobody]
           com == [q EXCEPT !.row = NewPeriod, !.plan = Nobody, !.sub = Nobody,
                            !.at = "commit", !.free = free]
<1>1. q.at = "grant" /\ ~Free(p) /\ TypeOK
  BY UnderWay DEF ReadGrant, At, IInv
<1>2. /\ q \in Request /\ OpSound(q, subs) /\ q.period \in Periods
      /\ q.op \in {"usage", "hold", "settle"} /\ q.amount \in Nat
      /\ q.op \in {"hold", "settle"} => q.hold \in Holds
  BY <1>1 DEF IInv, TypeOK, Request, OpSound
<1>3. /\ free \in Nat /\ free <= q.amount
      /\ grant.used[Unit(q.op)] + free <= FreeTotal
      /\ free > 0 => grant.until > 0
  <2> DEFINE u == Unit(q.op)
  <2>1. u \in Units
    BY UnitsAre
  <2>2. /\ grant.used[u] \in Nat /\ grant.used[u] <= FreeTotal
    BY <1>1, <2>1 DEF IInv, TypeOK, Used
  <2>3. /\ FreeLeft(u) \in Nat /\ grant.used[u] + FreeLeft(u) <= FreeTotal
        /\ FreeLeft(u) > 0 => grant.until > 0
    <3>1. now \in Nat /\ grant.until \in Nat
      BY <1>1 DEF TypeOK
    <3> HIDE DEF u
    <3> QED BY <2>2, <3>1, TotalsAre DEF FreeLeft
  <2> HIDE DEF u
  <2>4. free = Lesser(FreeLeft(u), q.amount)
    BY DEF u
  <2>5. free \in Nat /\ free <= q.amount /\ free <= FreeLeft(u)
    BY <1>2, <2>3, <2>4 DEF Lesser
  <2>6. grant.used[u] + free <= FreeTotal /\ (free > 0 => grant.until > 0)
    BY <2>2, <2>3, <2>5, TotalsAre
  <2> QED BY <2>5, <2>6 DEF u
<1>4. /\ UNCHANGED <<now, subs, periods, grant, usage, holds, media, stops,
                     overlaps>>
      /\ \/ req' = [req EXCEPT ![p] = Idle]
         \/ q.op = "hold" /\ req' = [req EXCEPT ![p] = frz]
         \/ q.op # "hold" /\ req' = [req EXCEPT ![p] = com]
  BY DEF ReadGrant, Load, Finish, tables, quota
<1> HIDE DEF free
<1>5. /\ subs' \in [Subs -> Sub] /\ holds' \in [Holds -> Hold]
      /\ \A s \in Subs : subs[s].plan # Nobody => subs'[s].plan # Nobody
      /\ \A h \in Holds : holds'[h].status = "settled"
                            => holds[h].status = "settled"
      /\ Active' = Active
  BY <1>1, <1>4 DEF TypeOK, Active
<1>6. /\ Idle \in Request /\ Idle.row = NewPeriod
      /\ Idle.at = "idle" /\ Idle.op = "none"
  BY IdleSound
<1>7. /\ frz \in Request /\ frz.row = NewPeriod
      /\ frz.at = "freeze" /\ frz.op = q.op /\ frz.hold = q.hold
  BY <1>2, NewCapped DEF Request, Steps
<1>8. /\ com \in Request /\ com.row = NewPeriod
      /\ com.at = "commit" /\ com.op = q.op /\ com.hold = q.hold
      /\ com.period = q.period /\ com.free = free /\ com.amount = q.amount
  BY <1>2, <1>3, NewCapped DEF Request, Steps
<1> HIDE DEF frz, com
<1>9. PICK v \in Request :
        /\ req' = [req EXCEPT ![p] = v] /\ v.row = NewPeriod
        /\ \/ v.at = "idle" /\ v.op = "none"
           \/ v.at = "freeze" /\ v.op = "hold" /\ v.op = q.op
              /\ v.hold = q.hold
           \/ /\ v.at = "commit" /\ v.op \in {"usage", "settle"} /\ v.op = q.op
              /\ v.hold = q.hold /\ v.period = q.period /\ v.free = free
              /\ v.amount = q.amount
  <2>1. CASE req' = [req EXCEPT ![p] = Idle]
    BY <2>1, <1>6, Zenon
  <2>2. CASE q.op = "hold" /\ req' = [req EXCEPT ![p] = frz]
    BY <2>2, <1>7, Zenon
  <2>3. CASE q.op # "hold" /\ req' = [req EXCEPT ![p] = com]
    <3>1. q.op \in {"usage", "settle"}
      BY <1>2, <2>3
    <3> QED BY <2>3, <3>1, <1>8, Zenon
  <2> QED BY <1>4, <2>1, <2>2, <2>3
<1>10. OpSound(v, subs')
  <2>1. Capped(v.row)
    BY <1>9, NewCapped
  <2>2. CASE v.at = "idle" /\ v.op = "none"
    BY <2>1, <2>2 DEF OpSound
  <2>3. CASE v.at = "freeze" /\ v.op = "hold" /\ v.op = q.op
                         /\ v.hold = q.hold
    <3>1. v.hold \in Holds
      BY <1>2, <2>3
    <3> QED BY <2>1, <2>3, <3>1 DEF OpSound
  <2>4. CASE v.at = "commit"
    BY <1>2, <1>3, <1>9, <2>1, <2>4 DEF OpSound
  <2> QED BY <1>9, <2>2, <2>3, <2>4
<1>11. v.at \notin {"first", "give"} /\ v.at \notin {"keep", "resave"}
  BY <1>9
<1>12. Granting'
  BY <1>1, <1>4, <1>5, <1>9, <1>11, GrantingRests
<1>13. ASSUME Turn(q)
       PROVE  InTurn(v, subs, periods, grant, holds, usage, media, stops)
  <2>1. Charge(q, periods, grant, usage) => Charge(v, periods, grant, usage)
    BY <1>1, <1>3, <1>9 DEF Charge
  <2>2. Bill(q, holds, media) => Bill(v, holds, media)
    BY <1>9 DEF Bill
  <2>3. Once(q, subs, periods) => Once(v, subs, periods)
    BY <1>9 DEF Once
  <2>4. Follow(q, subs, periods) => Follow(v, subs, periods)
    BY <1>1 DEF Follow
  <2> QED BY <1>13, <2>1, <2>2, <2>3, <2>4 DEF Turn, InTurn
<1>14. /\ UNCHANGED <<now, periods, grant, usage, media, stops, overlaps>>
       /\ holds' = holds /\ subs' = subs
  BY <1>4
<1> QED BY <1>1, <1>5, <1>9, <1>10, <1>11, <1>12, <1>13, <1>14, GoesOn

\* An operation ends, and leaves the holds as h.
LEMMA EndKeeps ==
    ASSUME IInv, NEW p \in Requests, ~Free(p),
           req' = [req EXCEPT ![p] = Idle],
           UNCHANGED <<now, subs, periods, grant, usage, media, stops,
                       overlaps>>,
           req[p].at \in {"freeze", "release"},
           holds' \in [Holds -> Hold],
           \A h \in Holds : holds'[h].status = "settled"
                              => holds[h].status = "settled",
           Bill(req[p], holds, media) => Bill(Idle, holds', media)
    PROVE  IInv'
<1>1. TypeOK
  BY DEF IInv
<1>2. /\ subs' \in [Subs -> Sub]
      /\ \A s \in Subs : subs[s].plan # Nobody => subs'[s].plan # Nobody
      /\ Active' = Active
  BY <1>1 DEF TypeOK, Active
<1>3. Granting'
  BY <1>2, IdleSound, GrantingRests
<1>4. ASSUME Turn(req[p])
      PROVE  InTurn(Idle, subs', periods, grant, holds', usage, media, stops)
  <2>1. Charge(req[p], periods, grant, usage)
          => Charge(Idle, periods, grant, usage)
    BY IdleSound DEF Charge
  <2>2. Once(req[p], subs, periods) => Once(Idle, subs, periods)
    BY IdleSound DEF Once
  <2>3. Follow(req[p], subs, periods) => Follow(Idle, subs, periods)
    BY DEF Follow
  <2> QED BY <1>4, <2>1, <2>2, <2>3 DEF Turn, InTurn
<1>5. Idle.at \notin {"keep", "resave"}
  BY IdleSound
<1> QED BY <1>2, <1>3, <1>4, <1>5, IdleSound, GoesOn

LEMMA FreezeKeeps ==
    ASSUME IInv, NEW p \in Requests, Freeze(p)
    PROVE  IInv'
<1> DEFINE q == req[p]
           h == q.hold
<1>1. q.at = "freeze" /\ ~Free(p) /\ TypeOK /\ req' = [req EXCEPT ![p] = Idle]
  BY UnderWay, FinishIs DEF Freeze, At, IInv
<1>2. q \in Request /\ q.op = "hold" /\ h \in Holds /\ q.amount \in Nat
  BY <1>1 DEF IInv, TypeOK, Request, OpSound
<1>3. /\ UNCHANGED <<now, subs, periods, grant, usage, media, stops, overlaps>>
      /\ \/ holds' = holds
         \/ /\ holds[h].status = "none"
            /\ holds' = [holds EXCEPT ![h] = [status |-> "frozen",
                                              estimate |-> q.amount]]
  BY DEF Freeze, quota
<1>4. /\ holds' \in [Holds -> Hold]
      /\ \A g \in Holds : holds'[g].status = "settled"
                            <=> holds[g].status = "settled"
  <2>1. holds \in [Holds -> Hold]
    BY <1>1 DEF TypeOK
  <2>2. CASE holds' = holds
    BY <2>1, <2>2
  <2>3. CASE holds[h].status = "none" /\ holds' # holds
    <3> DEFINE row == [status |-> "frozen", estimate |-> q.amount]
    <3>1. row \in Hold /\ row.status = "frozen"
      BY <1>2 DEF Hold
    <3>2. holds' = [holds EXCEPT ![h] = row]
      BY <1>3, <2>3
    <3> HIDE DEF row
    <3>3. /\ holds' \in [Holds -> Hold] /\ holds'[h] = row
          /\ \A g \in Holds \ {h} : holds'[g] = holds[g]
      BY <1>2, <2>1, <3>1, <3>2
    <3> QED BY <2>3, <3>1, <3>3
  <2> QED BY <1>3, <2>2, <2>3
<1>5. Bill(q, holds, media) => Bill(Idle, holds', media)
  BY <1>4, IdleSound DEF Bill
<1> QED BY <1>1, <1>3, <1>4, <1>5, EndKeeps

LEMMA ReleaseKeeps ==
    ASSUME IInv, NEW p \in Requests, Release(p)
    PROVE  IInv'
<1> DEFINE q == req[p]
           h == q.hold
<1>1. q.at = "release" /\ ~Free(p) /\ TypeOK /\ req' = [req EXCEPT ![p] = Idle]
  BY UnderWay, FinishIs DEF Release, At, IInv
<1>2. q \in Request /\ q.op = "refund" /\ h \in Holds
  BY <1>1 DEF IInv, TypeOK, Request, OpSound
<1>3. /\ UNCHANGED <<now, subs, periods, grant, usage, media, stops, overlaps>>
      /\ holds' = [holds EXCEPT ![h].status = "refunded"]
  BY DEF Release, quota
<1>4. /\ holds' \in [Holds -> Hold] /\ holds'[h].status = "refunded"
      /\ \A g \in Holds \ {h} : holds'[g] = holds[g]
  BY <1>1, <1>2, <1>3 DEF TypeOK, Hold
<1>5. \A g \in Holds : holds'[g].status = "settled"
                         => holds[g].status = "settled"
  BY <1>4
<1>6. Bill(q, holds, media) => Bill(Idle, holds', media)
  BY <1>2, <1>4, IdleSound DEF Bill
<1> QED BY <1>1, <1>3, <1>4, <1>5, <1>6, EndKeeps

-----------------------------------------------------------------------------
(* The steps that write a period                                           *)

\* The sums over two tables whose rows have used the same.
LEMMA SameUse ==
    ASSUME TypeOK, \A i \in Periods : periods'[i].used = periods[i].used
    PROVE  \A u : SumOver(UsedIn(periods', u), Periods)
                    = SumOver(UsedIn(periods, u), Periods)
BY DEF UsedIn

\* The operation saves its copy, once or for the second time.
LEMMA SavePeriodKeeps ==
    ASSUME IInv, NEW p \in Requests, NEW v \in Request, ~Free(p),
           req[p].at \in {"keep", "resave"},
           periods' = [periods EXCEPT ![req[p].period] = req[p].row],
           req' = [req EXCEPT ![p] = v],
           UNCHANGED <<now, subs, grant, holds, usage, media, stops, overlaps>>,
           \/ v = Idle
           \/ req[p].at = "keep" /\ v = [req[p] EXCEPT !.at = "resave"]
                /\ req[p].op = "upgrade"
           \/ req[p].at = "keep" /\ v = [req[p] EXCEPT !.at = "grant"]
                /\ req[p].op \in {"usage", "hold", "settle"}
    PROVE  IInv'
<1> DEFINE q == req[p]
<1>1. /\ q \in Request /\ OpSound(q, subs) /\ TypeOK /\ q.period \in Periods
      /\ q.row \in Period /\ q.row.sub \in Subs /\ Capped(q.row)
  BY DEF IInv, TypeOK, Request, OpSound
<1>2. \/ v.at = "idle" /\ v.op = "none" /\ v.row = NewPeriod
      \/ /\ q.at = "keep" /\ v.op = q.op /\ v.row = q.row /\ v.period = q.period
         /\ v.hold = q.hold
         /\ \/ v.at = "resave" /\ v.op = "upgrade"
            \/ v.at = "grant" /\ v.op \in {"usage", "hold", "settle"}
  BY <1>1, IdleSound DEF Request
<1>3. /\ periods' \in [Periods -> Period] /\ periods'[q.period] = q.row
      /\ \A i \in Periods \ {q.period} : periods'[i] = periods[i]
  BY <1>1 DEF TypeOK
<1>4. \A u \in Units : Ledger(u, periods', req', grant', usage')
  <2>1. \/ v.at \notin {"keep", "resave"}
        \/ v.period = req[p].period /\ v.row = req[p].row
    <3>1. CASE v.at = "idle"
      BY <3>1
    <3>2. CASE v.period = req[p].period /\ v.row = req[p].row
      BY <3>2
    <3> QED BY <1>2, <3>1, <3>2
  <2>2. ASSUME NEW u \in Units PROVE Ledger(u, periods', req', grant, usage)
    <3>1. PICK c \in [Periods -> Nat] :
            Bounds(c, u, periods, req, grant, usage)
      BY DEF IInv, Ledger
    <3>2. \A o \in Requests : req'[o] = IF o = p THEN v ELSE req[o]
      BY <1>1 DEF TypeOK
    <3>3. Bounds(c, u, periods', req', grant, usage)
      BY <1>1, <1>3, <2>1, <3>1, <3>2 DEF Bounds
    <3> QED BY <3>3 DEF Ledger
  <2> QED BY <2>2
<1>5. Active' = Active
  BY DEF Active
<1>6. Granting'
  BY <1>5, GrantingRests
<1>7. OpSound(v, subs')
  BY <1>1, <1>2, NewCapped DEF OpSound
<1>8. ASSUME Turn(q)
      PROVE  InTurn(v, subs, periods', grant, holds, usage, media, stops)
  <2>1. Charge(q, periods, grant, usage) /\ Once(q, subs, periods)
        /\ Bill(q, holds, media)
    BY <1>8 DEF Turn, InTurn
  <2>2. \A i \in Periods : periods'[i].used = periods[i].used
    BY <1>3, <2>1 DEF Charge
  <2>3. Charge(v, periods', grant, usage)
    <3>1. \A u \in Units :
            SumOver(UsedIn(periods', u), Periods) + grant.used[u] = usage[u]
      BY <1>1, <2>1, <2>2, SameUse DEF Charge
    <3>2. \A i \in Periods : periods'[i].sub = Nobody
            => periods'[i].used = Unused
      BY <1>1, <1>3, <2>1, <2>2, IdsAssumption DEF Charge
    <3>3. periods'[q.period].sub # Nobody
      BY <1>1, <1>3, IdsAssumption
    <3>4. v.at \notin {"keep", "commit"}
          /\ (v.at # "idle" => v.period = q.period /\ v.row = q.row)
          /\ (v.at = "idle" => v.at \notin {"resave", "grant"})
      BY <1>2
    <3>5. grant.until = 0 => grant.used = Unused
      BY <2>1 DEF Charge
    <3>6. v.at \in {"keep", "resave", "grant", "commit"} =>
            periods'[v.period].sub # Nobody
      BY <3>3, <3>4
    <3>7. v.at \in {"keep", "resave"} => v.row.used = periods'[v.period].used
      BY <1>3, <3>4
    <3> QED BY <3>1, <3>2, <3>4, <3>5, <3>6, <3>7 DEF Charge
  <2>4. Bill(v, holds, media)
    BY <1>2, <2>1 DEF Bill
  <2>5. periods[q.period] = [q.row EXCEPT !.total = periods[q.period].total]
    BY <2>1 DEF Once
  <2>6. \A i \in Periods : periods'[i].sub = periods[i].sub
                           /\ periods'[i].end = periods[i].end
    BY <1>1, <1>3, <2>5 DEF Period
  <2>7. Once(v, subs, periods')
    <3>1. \A i, j \in Periods :
            periods'[i].sub # Nobody /\ periods'[i].sub = periods'[j].sub
            /\ i # j
              => periods'[i].end # periods'[j].end
      BY <2>1, <2>6 DEF Once
    <3>2. \A i \in Periods : periods'[i].sub # Nobody
            => /\ subs[periods'[i].sub].plan # Nobody
               /\ periods'[i].end <= subs[periods'[i].sub].end
      BY <2>1, <2>6 DEF Once
    <3>3. v.at = "resave" => periods'[v.period] = v.row
      BY <1>2, <1>3
    <3>4. v.at = "resave" => v.row
            = [v.row EXCEPT !.total = v.row.total]
      BY <1>1, <1>2 DEF Period
    <3> QED BY <1>2, <3>1, <3>2, <3>3, <3>4 DEF Once
  <2>8. ASSUME Follow(q, subs, periods) PROVE Follow(v, subs, periods')
    <3> SUFFICES ASSUME NEW s \in Subs, subs[s].plan # Nobody,
                        NEW i \in Periods, periods'[i].sub = s,
                        periods'[i].end = subs[s].end
                 PROVE  periods'[i].total = Total[subs[s].plan]
      BY DEF Follow, Follows
    <3>1. periods[i].sub = s /\ periods[i].end = subs[s].end
      BY <2>6
    <3>2. CASE i = q.period
      <4>1. periods'[i] = q.row
        BY <1>3, <3>2
      <4>2. CASE q.at = "keep"
        BY <2>1, <2>6, <3>1, <3>2, <4>1, <4>2 DEF Once
      <4>3. CASE q.at = "resave"
        <5>1. periods'[i] = periods[i]
          BY <2>1, <3>2, <4>1, <4>3 DEF Once
        <5> QED BY <2>8, <3>1, <4>3, <5>1 DEF Follow, Follows
      <4> QED BY <4>2, <4>3
    <3>3. CASE i # q.period
      <4>1. periods'[i] = periods[i]
        BY <1>3, <3>3
      <4>2. ~(q.at = "keep" /\ q.sub = s)
        BY <2>1, <3>1, <3>3 DEF Once
      <4> QED BY <2>8, <3>1, <4>1, <4>2 DEF Follow, Follows
    <3> QED BY <3>2, <3>3
  <2> QED BY <1>8, <2>3, <2>4, <2>7, <2>8 DEF Turn, InTurn
<1>9. overlaps' = 0 =>
        /\ \A o \in Requests \ {p} : Free(o)
        /\ InTurn(v, subs', periods', grant', holds', usage', media', stops')
  BY <1>8, OwnTurn
<1>10. /\ \A i \in Periods : Capped(periods'[i])
       /\ \A u \in Units : grant'.used[u] <= FreeTotal
       /\ \A h \in Holds : holds'[h].status = "settled" => media'[h] >= 1
       /\ \A s \in Subs : subs[s].plan # Nobody => subs'[s].plan # Nobody
  BY <1>1, <1>3 DEF IInv
<1>11. /\ now' \in Nat /\ subs' \in [Subs -> Sub]
       /\ grant' \in [until : Nat, used : Used] /\ holds' \in [Holds -> Hold]
       /\ usage' \in Used /\ media' \in [Holds -> Nat]
       /\ stops' \in 0..MaxDisturbed /\ overlaps' \in 0..MaxDisturbed
  BY <1>1 DEF TypeOK
<1> QED BY <1>3, <1>4, <1>6, <1>7, <1>9, <1>10, <1>11, StepKeeps

LEMMA EnsuredIs ==
    ASSUME NEW q \in Request, q.op \in Charging
    PROVE  /\ Ensured(q) \in Request
           /\ \/ q.op = "query" /\ Ensured(q) = Idle
              \/ q.op = "upgrade" /\ Ensured(q) = [q EXCEPT !.at = "resave"]
              \/ /\ q.op \in {"usage", "hold", "settle"}
                 /\ Ensured(q) = [q EXCEPT !.at = "grant"]
<1>1. CASE q.op = "query"
  BY <1>1, IdleSound DEF Ensured
<1>2. CASE q.op = "upgrade"
  BY <1>2, Zenon DEF Ensured, Request, Steps
<1>3. CASE q.op \in {"usage", "hold", "settle"}
  BY <1>3 DEF Ensured, Request, Steps
<1> QED BY <1>1, <1>2, <1>3 DEF Charging

LEMMA KeepPeriodKeeps ==
    ASSUME IInv, NEW p \in Requests, KeepPeriod(p)
    PROVE  IInv'
<1> DEFINE q == req[p]
<1>1. q.at = "keep" /\ ~Free(p)
  BY UnderWay DEF KeepPeriod, At
<1>2. q \in Request /\ q.op \in Charging
  BY <1>1 DEF IInv, TypeOK, Request, OpSound
<1>3. /\ periods' = [periods EXCEPT ![q.period] = q.row]
      /\ req' = [req EXCEPT ![p] = Ensured(q)]
      /\ UNCHANGED <<now, subs, grant, holds, usage, media, stops, overlaps>>
  BY DEF KeepPeriod, Load
<1> QED BY <1>1, <1>2, <1>3, EnsuredIs, SavePeriodKeeps

LEMMA ResaveKeeps ==
    ASSUME IInv, NEW p \in Requests, Resave(p)
    PROVE  IInv'
<1>1. req[p].at = "resave" /\ ~Free(p)
  BY UnderWay DEF Resave, At
<1>2. /\ periods' = [periods EXCEPT ![req[p].period] = req[p].row]
      /\ req' = [req EXCEPT ![p] = Idle]
      /\ UNCHANGED <<now, subs, grant, holds, usage, media, stops, overlaps>>
  BY FinishIs DEF Resave
<1> QED BY <1>1, <1>2, IdleSound, SavePeriodKeeps

\* The grant of whoever waits for it is still to come.
LEMMA InsertPeriodKeeps ==
    ASSUME IInv, NEW p \in Requests, InsertPeriod(p)
    PROVE  IInv'
<1> DEFINE q == req[p]
           row == Fresh(q.sub, q.copy)
           i == Min(Absent)
           give == [Idle EXCEPT !.at = "give"]
           n == [q EXCEPT !.period = i, !.row = row, !.copy = NewSub]
<1>1. /\ q.at \in {"insert", "first"} /\ ~Free(p) /\ TypeOK
      /\ i \in Periods /\ periods[i].sub = Nobody
  <2>1. Absent # {} /\ q.at \in {"insert", "first"}
    BY DEF InsertPeriod
  <2>2. Absent \in SUBSET Nat /\ Absent \subseteq Periods
    BY IdsAssumption DEF Absent
  <2>3. i \in Absent
    BY <2>1, <2>2, Least
  <2> QED BY <2>1, <2>3, UnderWay DEF Absent, IInv
<1>2. /\ q \in Request /\ OpSound(q, subs) /\ q.sub \in Subs
      /\ q.copy \in Sub /\ q.copy.plan \in Plans /\ subs[q.sub].plan # Nobody
      /\ q.at = "insert" => q.op \in Charging
      /\ q.op \in {"hold", "settle", "refund"} => q.hold \in Holds
  BY <1>1 DEF IInv, TypeOK, Request, OpSound, Sub
<1>3. /\ row \in Period /\ row.sub = q.sub /\ row.end = q.copy.end
      /\ row.total = Total[q.copy.plan] /\ row.used = Unused
  BY <1>2, UnitsAre, TotalsAre DEF Fresh, Period, Sub
<1>4. Capped(row)
  BY <1>2, <1>3, UnitsAre, TotalsAre DEF Capped
<1>5. row.sub # Nobody
  BY <1>2, <1>3, IdsAssumption
<1>6. /\ periods' = [periods EXCEPT ![i] = row]
      /\ UNCHANGED <<now, subs, grant, holds, usage, media, stops, overlaps>>
      /\ \/ q.at = "first" /\ req' = [req EXCEPT ![p] = give]
         \/ q.at = "insert" /\ req' = [req EXCEPT ![p] = Ensured(n)]
  BY <1>1 DEF InsertPeriod, At, Load
<1> HIDE DEF i, row
<1>7. /\ n \in Request /\ n.op = q.op /\ n.hold = q.hold /\ n.period = i
      /\ n.row = row
  BY <1>1, <1>2, <1>3, IdleSound DEF Request
<1> HIDE DEF n
<1>8. PICK v \in Request :
        /\ req' = [req EXCEPT ![p] = v]
        /\ \/ v.at = "give" /\ v.op = "none" /\ v.row = NewPeriod
           \/ /\ q.at = "insert"
              /\ v.at = "idle" /\ v.op = "none" /\ v.row = NewPeriod
           \/ /\ q.at = "insert" /\ v.op = q.op /\ v.hold = q.hold
              /\ v.period = i /\ v.row = row
              /\ \/ v.at = "resave" /\ v.op = "upgrade"
                 \/ v.at = "grant" /\ v.op \in {"usage", "hold", "settle"}
  <2>1. CASE q.at = "first" /\ req' = [req EXCEPT ![p] = give]
    <3>1. /\ give \in Request /\ give.at = "give" /\ give.op = "none"
          /\ give.row = NewPeriod
      BY IdleSound DEF Request, Steps
    <3> HIDE DEF give
    <3> QED BY <2>1, <3>1, Zenon
  <2>2. CASE q.at = "insert" /\ req' = [req EXCEPT ![p] = Ensured(n)]
    <3> DEFINE e == Ensured(n)
    <3>1. n.op \in Charging
      BY <1>2, <1>7, <2>2
    <3>2. /\ e \in Request
          /\ \/ e.at = "idle" /\ e.op = "none" /\ e.row = NewPeriod
             \/ /\ e.op = q.op /\ e.hold = q.hold
                /\ e.period = i /\ e.row = row
                /\ \/ e.at = "resave" /\ e.op = "upgrade"
                   \/ e.at = "grant" /\ e.op \in {"usage", "hold", "settle"}
      <4>1. CASE e = Idle
        BY <4>1, IdleSound
      <4>2. CASE e = [n EXCEPT !.at = "resave"] /\ n.op = "upgrade"
        BY <1>7, <4>2 DEF Request, Steps
      <4>3. CASE /\ e = [n EXCEPT !.at = "grant"]
                 /\ n.op \in {"usage", "hold", "settle"}
        BY <1>7, <4>3 DEF Request, Steps
      <4> QED BY <1>7, <3>1, <4>1, <4>2, <4>3, EnsuredIs
    <3> HIDE DEF e
    <3>3. req' = [req EXCEPT ![p] = e]
      BY <2>2 DEF e
    <3> QED BY <2>2, <3>2, <3>3, Zenon
  <2> QED BY <1>6, <2>1, <2>2
<1>9. /\ periods' \in [Periods -> Period] /\ periods'[i] = row
      /\ \A j \in Periods \ {i} : periods'[j] = periods[j]
  BY <1>1, <1>3, <1>6 DEF TypeOK
<1>10. \A u \in Units : Ledger(u, periods', req', grant', usage')
  <2> SUFFICES ASSUME NEW u \in Units
               PROVE  Ledger(u, periods', req', grant, usage)
    BY <1>6
  <2>1. PICK c \in [Periods -> Nat] : Bounds(c, u, periods, req, grant, usage)
    BY DEF IInv, Ledger
  <2>2. \A o \in Requests : req'[o] = IF o = p THEN v ELSE req[o]
    BY <1>1, <1>8 DEF TypeOK
  <2>3. row.used[u] = 0
    BY <1>3, UnitsAre
  <2>4. v.at \in {"keep", "resave"} => v.row = row /\ v.period = i
    BY <1>8
  <2>5. Bounds(c, u, periods', req', grant, usage)
    BY <1>1, <1>9, <2>1, <2>2, <2>3, <2>4 DEF Bounds
  <2> QED BY <2>5 DEF Ledger
<1>11. Active' = Active
  BY <1>6 DEF Active
<1>12. Granting'
  <2>1. q.at \in {"first", "give"} => v.at \in {"first", "give"}
    BY <1>8, <1>1
  <2> QED BY <1>1, <1>6, <1>8, <1>11, <2>1, GrantingRests
<1>13. OpSound(v, subs')
  <2>1. CASE v.at \in {"give", "idle"} /\ v.op = "none" /\ v.row = NewPeriod
    BY <2>1, NewCapped DEF OpSound
  <2>2. CASE v.at \in {"resave", "grant"}
    BY <1>1, <1>2, <1>3, <1>4, <1>8, <2>2 DEF OpSound
  <2> QED BY <1>8, <2>1, <2>2
<1>14. ASSUME Turn(q)
       PROVE  InTurn(v, subs, periods', grant, holds, usage, media, stops)
  <2>1. /\ Charge(q, periods, grant, usage) /\ Once(q, subs, periods)
        /\ Bill(q, holds, media)
    BY <1>14 DEF Turn, InTurn
  <2>2. \A j \in Periods : periods'[j].used = periods[j].used
    BY <1>1, <1>3, <1>9, <2>1 DEF Charge
  <2>3. Charge(v, periods', grant, usage)
    <3>1. \A u \in Units :
            SumOver(UsedIn(periods', u), Periods) + grant.used[u] = usage[u]
      BY <1>1, <2>1, <2>2, SameUse DEF Charge
    <3>2. \A j \in Periods : periods'[j].sub = Nobody
            => periods'[j].used = Unused
      BY <1>5, <1>9, <2>1 DEF Charge
    <3>3. v.at \in {"keep", "resave", "grant", "commit"}
            => v.period = i /\ v.row = row
      BY <1>8
    <3>4. v.at # "commit" /\ (grant.until = 0 => grant.used = Unused)
      BY <1>8, <2>1 DEF Charge
    <3> QED BY <1>5, <1>9, <3>1, <3>2, <3>3, <3>4 DEF Charge
  <2>4. Bill(v, holds, media)
    BY <1>8, <2>1 DEF Bill
  <2>5. q.copy = subs[q.sub]
        /\ \A j \in Periods : periods[j].sub = q.sub
             => periods[j].end < q.copy.end
    BY <1>1, <2>1 DEF Once
  <2>6. /\ \A j \in Periods : periods[j].end \in Nat
        /\ q.copy.end \in Nat
    BY <1>1, <1>2 DEF TypeOK, Period, Sub
  <2>7. Once(v, subs, periods')
    <3>1. ASSUME NEW j \in Periods, NEW k \in Periods,
                 periods'[j].sub # Nobody, periods'[j].sub = periods'[k].sub,
                 j # k
          PROVE  periods'[j].end # periods'[k].end
      <4>1. CASE j = i
        BY <1>3, <1>9, <2>5, <2>6, <3>1, <4>1
      <4>2. CASE k = i
        BY <1>3, <1>9, <2>5, <2>6, <3>1, <4>2
      <4>3. CASE j # i /\ k # i
        BY <1>9, <2>1, <3>1, <4>3 DEF Once
      <4> QED BY <4>1, <4>2, <4>3
    <3>2. ASSUME NEW j \in Periods, periods'[j].sub # Nobody
          PROVE  /\ subs[periods'[j].sub].plan # Nobody
                 /\ periods'[j].end <= subs[periods'[j].sub].end
      <4>1. CASE j = i
        BY <1>2, <1>3, <1>9, <2>5, <2>6, <4>1
      <4>2. CASE j # i
        BY <1>9, <2>1, <3>2, <4>2 DEF Once
      <4> QED BY <4>1, <4>2
    <3>3. /\ v.at \in {"give", "idle", "grant", "resave"}
          /\ v.at = "resave" => v.period = i /\ v.row = row
      <4>1. v.at \in {"give", "idle"} \/ (v.period = i /\ v.row = row)
        BY <1>8
      <4> QED BY <1>8, <4>1
    <3>4. row = [row EXCEPT !.total = row.total]
      BY <1>3 DEF Period
    <3> QED BY <1>9, <3>1, <3>2, <3>3, <3>4 DEF Once
  <2>8. Follow(q, subs, periods) => Follow(v, subs, periods')
    <3> SUFFICES ASSUME Follow(q, subs, periods),
                        NEW s \in Subs, subs[s].plan # Nobody,
                        NEW j \in Periods, periods'[j].sub = s,
                        periods'[j].end = subs[s].end
                 PROVE  periods'[j].total = Total[subs[s].plan]
      BY DEF Follow, Follows
    <3>1. CASE j = i
      BY <1>3, <1>9, <2>5, <3>1
    <3>2. CASE j # i
      BY <1>1, <1>9, <3>2 DEF Follow, Follows
    <3> QED BY <3>1, <3>2
  <2> QED BY <1>14, <2>3, <2>4, <2>7, <2>8 DEF Turn, InTurn
<1>15. overlaps' = 0 =>
         /\ \A o \in Requests \ {p} : Free(o)
         /\ InTurn(v, subs', periods', grant', holds', usage', media', stops')
  BY <1>1, <1>6, <1>14, OwnTurn
<1>16. /\ \A j \in Periods : Capped(periods'[j])
       /\ \A u \in Units : grant'.used[u] <= FreeTotal
       /\ \A h \in Holds : holds'[h].status = "settled" => media'[h] >= 1
       /\ \A s \in Subs : subs[s].plan # Nobody => subs'[s].plan # Nobody
  BY <1>4, <1>6, <1>9 DEF IInv
<1>17. /\ now' \in Nat /\ subs' \in [Subs -> Sub]
       /\ grant' \in [until : Nat, used : Used] /\ holds' \in [Holds -> Hold]
       /\ usage' \in Used /\ media' \in [Holds -> Nat]
       /\ stops' \in 0..MaxDisturbed /\ overlaps' \in 0..MaxDisturbed
  BY <1>1, <1>6 DEF TypeOK
<1> QED BY <1>8, <1>9, <1>10, <1>12, <1>13, <1>15, <1>16, <1>17, StepKeeps

\* The grant is given once; a later activation leaves it as it is.
LEMMA GiveKeeps ==
    ASSUME IInv, NEW p \in Requests, Give(p)
    PROVE  IInv'
<1> DEFINE q == req[p]
<1>1. /\ q.at = "give" /\ ~Free(p) /\ TypeOK
      /\ req' = [req EXCEPT ![p] = Idle]
      /\ UNCHANGED <<now, subs, periods, holds, usage, media, stops, overlaps>>
  BY UnderWay, FinishIs DEF Give, At, IInv
<1>2. /\ grant.until \in Nat /\ now \in Nat /\ grant.used \in Used
      /\ grant \in [until : Nat, used : Used]
  BY <1>1 DEF TypeOK
<1>3. /\ grant' \in [until : Nat, used : Used] /\ grant'.until > 0
      /\ \/ grant' = grant
         \/ grant.until = 0 /\ grant'.used = Unused
  <2>1. CASE grant.until = 0
    <3>1. grant' = Given
      BY <2>1 DEF Give
    <3>2. /\ Given.until = now + FreeLength /\ Given.used = Unused
          /\ Given \in [until : Nat, used : Used]
      BY <1>2, TotalsAre, UnitsAre DEF Given
    <3> QED BY <1>2, <2>1, <3>1, <3>2, TotalsAre
  <2>2. CASE grant.until # 0
    BY <1>2, <2>2 DEF Give
  <2> QED BY <2>1, <2>2
<1>4. \A u \in Units :
        grant'.used[u] <= grant.used[u] /\ grant.used[u] \in Nat
        /\ grant'.used[u] \in Nat
  BY <1>2, <1>3, UnitsAre DEF Used
<1>5. \A u \in Units : Ledger(u, periods', req', grant', usage')
  <2> SUFFICES ASSUME NEW u \in Units
               PROVE  Ledger(u, periods, req', grant', usage)
    BY <1>1
  <2>1. PICK c \in [Periods -> Nat] : Bounds(c, u, periods, req, grant, usage)
    BY DEF IInv, Ledger
  <2>2. \A o \in Requests : req'[o] = IF o = p THEN Idle ELSE req[o]
    BY <1>1 DEF TypeOK
  <2>3. SumOver(c, Periods) + grant'.used[u] <= usage[u]
    <3>1. SumOver(c, Periods) \in Nat
      BY SumType, IdsAssumption
    <3>2. usage[u] \in Nat
      BY <1>1 DEF TypeOK, Used
    <3>3. SumOver(c, Periods) + grant.used[u] <= usage[u]
      BY <2>1 DEF Bounds
    <3> QED BY <1>4, <3>1, <3>2, <3>3
  <2>4. Bounds(c, u, periods, req', grant', usage)
    BY <2>1, <2>2, <2>3, IdleSound DEF Bounds
  <2> QED BY <2>4 DEF Ledger
<1>6. Granting'
  BY <1>3 DEF Granting
<1>7. ASSUME Turn(q)
      PROVE  InTurn(Idle, subs, periods, grant', holds, usage, media, stops)
  <2>1. Charge(q, periods, grant, usage)
    BY <1>7 DEF Turn, InTurn
  <2>2. grant'.used = grant.used
    BY <1>3, <2>1 DEF Charge
  <2>3. Charge(Idle, periods, grant', usage)
    BY <1>3, <2>1, <2>2, IdleSound DEF Charge
  <2>4. Bill(q, holds, media) => Bill(Idle, holds, media)
    BY IdleSound DEF Bill
  <2>5. Once(q, subs, periods) => Once(Idle, subs, periods)
    BY IdleSound DEF Once
  <2>6. Follow(q, subs, periods) => Follow(Idle, subs, periods)
    BY <1>1 DEF Follow
  <2> QED BY <1>7, <2>3, <2>4, <2>5, <2>6 DEF Turn, InTurn
<1>8. overlaps' = 0 =>
        /\ \A o \in Requests \ {p} : Free(o)
        /\ InTurn(Idle, subs', periods', grant', holds', usage', media', stops')
  BY <1>1, <1>7, OwnTurn
<1>9. /\ \A j \in Periods : Capped(periods'[j])
      /\ \A h \in Holds : holds'[h].status = "settled" => media'[h] >= 1
      /\ \A s \in Subs : subs[s].plan # Nobody => subs'[s].plan # Nobody
  BY <1>1 DEF IInv
<1>10. \A u \in Units : grant'.used[u] <= FreeTotal
  BY <1>4, TotalsAre DEF IInv
<1>11. /\ now' \in Nat /\ subs' \in [Subs -> Sub]
       /\ periods' \in [Periods -> Period] /\ holds' \in [Holds -> Hold]
       /\ usage' \in Used /\ media' \in [Holds -> Nat]
       /\ stops' \in 0..MaxDisturbed /\ overlaps' \in 0..MaxDisturbed
  BY <1>1 DEF TypeOK
<1>12. Idle \in Request /\ OpSound(Idle, subs')
  BY IdleSound
<1> QED BY <1>1, <1>3, <1>5, <1>6, <1>8, <1>9, <1>10, <1>11, <1>12, StepKeeps

\* An operation ends, and leaves the rows as they are; it may have been stopped.
LEMMA EndRests ==
    ASSUME IInv, NEW p \in Requests, ~Free(p),
           req' = [req EXCEPT ![p] = Idle],
           UNCHANGED <<now, subs, periods, grant, usage, holds, media,
                       overlaps>>,
           \/ stops' = stops /\ req[p].at = "commit"
           \/ stops' = stops + 1 /\ stops' \in 0..MaxDisturbed
    PROVE  IInv'
<1>1. TypeOK /\ stops' \in 0..MaxDisturbed
  BY DEF IInv, TypeOK
<1>2. \A u \in Units : Ledger(u, periods', req', grant', usage')
  <2> SUFFICES ASSUME NEW u \in Units
               PROVE  Ledger(u, periods, req', grant, usage)
    OBVIOUS
  <2> QED BY IdleSound, LedgerRests
<1>3. Granting'
  <2>1. CASE stops' = stops + 1
    BY <1>1, <2>1 DEF Granting, TypeOK
  <2>2. CASE stops' = stops /\ req[p].at = "commit"
    <3>1. Active' = Active
      BY DEF Active
    <3> QED BY <2>2, <3>1, IdleSound, GrantingRests
  <2> QED BY <2>1, <2>2
<1>4. ASSUME Turn(req[p])
      PROVE  InTurn(Idle, subs, periods, grant, holds, usage, media, stops')
  <2>1. Charge(req[p], periods, grant, usage)
          => Charge(Idle, periods, grant, usage)
    BY IdleSound DEF Charge
  <2>2. Bill(req[p], holds, media) => Bill(Idle, holds, media)
    BY IdleSound DEF Bill
  <2>3. Once(req[p], subs, periods) => Once(Idle, subs, periods)
    BY IdleSound DEF Once
  <2>4. stops' = 0 => stops' = stops /\ req[p].at = "commit"
    BY <1>1 DEF TypeOK
  <2>5. req[p].at = "commit" /\ Follow(req[p], subs, periods)
          => Follow(Idle, subs, periods)
    BY DEF Follow
  <2> QED BY <1>4, <2>1, <2>2, <2>3, <2>4, <2>5 DEF Turn, InTurn
<1>5. overlaps' = 0 =>
        /\ \A o \in Requests \ {p} : Free(o)
        /\ InTurn(Idle, subs', periods', grant', holds', usage', media', stops')
  BY <1>4, OwnTurn
<1>6. /\ \A i \in Periods : Capped(periods'[i])
      /\ \A u \in Units : grant'.used[u] <= FreeTotal
      /\ \A h \in Holds : holds'[h].status = "settled" => media'[h] >= 1
      /\ \A s \in Subs : subs[s].plan # Nobody => subs'[s].plan # Nobody
  BY DEF IInv
<1>7. /\ now' \in Nat /\ subs' \in [Subs -> Sub]
      /\ periods' \in [Periods -> Period]
      /\ grant' \in [until : Nat, used : Used] /\ holds' \in [Holds -> Hold]
      /\ usage' \in Used /\ media' \in [Holds -> Nat]
      /\ overlaps' \in 0..MaxDisturbed
  BY <1>1 DEF TypeOK
<1>8. Idle \in Request /\ OpSound(Idle, subs')
  BY IdleSound
<1> QED BY <1>1, <1>2, <1>3, <1>5, <1>6, <1>7, <1>8, StepKeeps

LEMMA StopKeeps ==
    ASSUME IInv, NEW p \in Requests, Stop(p)
    PROVE  IInv'
<1>1. /\ ~Free(p) /\ overlaps + stops < MaxDisturbed /\ stops' = stops + 1
      /\ req' = [req EXCEPT ![p] = Idle]
      /\ UNCHANGED <<now, subs, periods, grant, usage, holds, media, overlaps>>
  BY FinishIs DEF Stop, tables, quota
<1>2. stops' \in 0..MaxDisturbed
  BY <1>1, BoundAssumption DEF IInv, TypeOK
<1> QED BY <1>1, <1>2, EndRests

\* The transaction of a charge.
LEMMA CommitKeeps ==
    ASSUME IInv, NEW p \in Requests, Commit(p)
    PROVE  IInv'
<1> DEFINE q == req[p]
           i == q.period
           w == Unit(q.op)
           k == Paid(q)
           f == q.free
           row == Charged(periods[i], w, k)
<1>1. /\ q.at = "commit" /\ ~Free(p) /\ TypeOK
      /\ req' = [req EXCEPT ![p] = Idle]
      /\ UNCHANGED <<now, subs, stops, overlaps>>
  BY UnderWay, FinishIs DEF Commit, At, IInv
<1>2. /\ q \in Request /\ i \in Periods /\ w \in Units
      /\ q.op \in {"usage", "settle"} /\ (q.op = "settle" => q.hold \in Holds)
      /\ f \in Nat /\ q.amount \in Nat /\ f <= q.amount
  BY <1>1, UnitsAre DEF IInv, TypeOK, Request, OpSound
<1>3. k \in Nat /\ k + f = q.amount
  BY <1>2 DEF Paid
<1>4. /\ periods \in [Periods -> Period] /\ periods[i] \in Period
      /\ periods[i].used \in [Units -> Nat] /\ periods[i].total \in Nat
      /\ grant \in [until : Nat, used : Used]
      /\ grant.used \in [Units -> Nat] /\ usage \in [Units -> Nat]
      /\ holds \in [Holds -> Hold] /\ media \in [Holds -> Nat]
  BY <1>1, <1>2 DEF TypeOK, Period, Used
<1>5. /\ \/ UNCHANGED <<periods, grant, usage, holds, media>>
         \/ /\ k = 0 \/ Fits(periods[i], w, k, periods[i].total)
            /\ periods' = [periods EXCEPT ![i] = row]
            /\ grant' = IF Fits(grant, w, f, FreeTotal)
                        THEN Charged(grant, w, f) ELSE grant
            /\ usage' = [usage EXCEPT ![w] = @ + q.amount]
            /\ IF q.op = "settle"
               THEN /\ holds' = [holds EXCEPT ![q.hold].status = "settled"]
                    /\ media' = [media EXCEPT ![q.hold] = @ + 1]
               ELSE UNCHANGED <<holds, media>>
  BY <1>3 DEF Commit
<1> HIDE DEF i, w, k, f
<1>6. CASE UNCHANGED <<periods, grant, usage, holds, media>>
  BY <1>1, <1>6, EndRests
<1>7. CASE /\ k = 0 \/ Fits(periods[i], w, k, periods[i].total)
           /\ periods' = [periods EXCEPT ![i] = row]
           /\ grant' = IF Fits(grant, w, f, FreeTotal)
                       THEN Charged(grant, w, f) ELSE grant
           /\ usage' = [usage EXCEPT ![w] = @ + q.amount]
           /\ IF q.op = "settle"
              THEN /\ holds' = [holds EXCEPT ![q.hold].status = "settled"]
                   /\ media' = [media EXCEPT ![q.hold] = @ + 1]
              ELSE UNCHANGED <<holds, media>>
  <2>1. /\ row \in Period /\ row.sub = periods[i].sub
        /\ row.end = periods[i].end /\ row.total = periods[i].total
        /\ row.used = [periods[i].used EXCEPT ![w] = @ + k]
    <3> DEFINE more == [periods[i].used EXCEPT ![w] = @ + k]
    <3>1. more \in Used
      BY <1>2, <1>3, <1>4 DEF Used
    <3>2. row = [periods[i] EXCEPT !.used = more]
      BY DEF Charged
    <3> HIDE DEF more, row
    <3>3. /\ row \in Period /\ row.sub = periods[i].sub
          /\ row.end = periods[i].end /\ row.total = periods[i].total
          /\ row.used = more
      BY <1>4, <3>1, <3>2 DEF Period
    <3> QED BY <3>3 DEF more
  <2>2. /\ row.used \in [Units -> Nat] /\ row.used[w] = periods[i].used[w] + k
        /\ \A u \in Units \ {w} : row.used[u] = periods[i].used[u]
    BY <1>2, <1>3, <1>4, <2>1
  <2> DEFINE c == Charged(grant, w, f)
  <2>3. /\ c \in [until : Nat, used : Used] /\ c.until = grant.until
        /\ c.used = [grant.used EXCEPT ![w] = @ + f]
    BY <1>2, <1>4 DEF Charged, Used
  <2>4. /\ c.used \in [Units -> Nat] /\ c.used[w] = grant.used[w] + f
        /\ \A u \in Units \ {w} : c.used[u] = grant.used[u]
    BY <1>2, <1>4, <2>3
  <2>5. grant' = c \/ grant' = grant
    BY <1>7
  <2>6. Fits(grant, w, f, FreeTotal) <=> grant.used[w] + f <= FreeTotal
    BY DEF Fits
  <2> HIDE DEF row, c
  <2>7. /\ periods' \in [Periods -> Period] /\ periods'[i] = row
        /\ \A j \in Periods \ {i} : periods'[j] = periods[j]
    BY <1>2, <1>4, <1>7, <2>1
  <2>8. /\ usage' \in [Units -> Nat] /\ usage'[w] = usage[w] + q.amount
        /\ \A u \in Units \ {w} : usage'[u] = usage[u]
    BY <1>2, <1>4, <1>7
  <2>9. /\ holds' \in [Holds -> Hold] /\ media' \in [Holds -> Nat]
        /\ q.op = "settle" => /\ holds'[q.hold].status = "settled"
                              /\ media'[q.hold] = media[q.hold] + 1
        /\ \A h \in Holds :
             q.op # "settle" \/ h # q.hold => holds'[h] = holds[h]
                                              /\ media'[h] = media[h]
    <3>1. CASE q.op = "settle"
      <4>1. holds' = [holds EXCEPT ![q.hold].status = "settled"]
            /\ media' = [media EXCEPT ![q.hold] = @ + 1]
        BY <1>7, <3>1
      <4>2. q.hold \in Holds
        BY <1>2, <3>1
      <4>3. /\ holds' \in [Holds -> Hold] /\ holds'[q.hold].status = "settled"
            /\ \A h \in Holds \ {q.hold} : holds'[h] = holds[h]
        BY <1>4, <4>1, <4>2 DEF Hold
      <4>4. /\ media' \in [Holds -> Nat] /\ media'[q.hold] = media[q.hold] + 1
            /\ \A h \in Holds \ {q.hold} : media'[h] = media[h]
        BY <1>4, <4>1, <4>2
      <4> QED BY <3>1, <4>3, <4>4
    <3>2. CASE q.op # "settle"
      BY <1>4, <1>7, <3>2
    <3> QED BY <3>1, <3>2
  <2>10. Capped(row)
    <3>1. Capped(periods[i])
      BY <1>2 DEF IInv
    <3>2. \E plan \in Plans : row.total <= Total[plan]
      BY <2>1, <3>1 DEF Capped
    <3>3. ASSUME NEW u \in Units
          PROVE  \E plan \in Plans : row.used[u] <= Total[plan]
      <4>1. PICK plan \in Plans : periods[i].used[u] <= Total[plan]
        BY <3>1 DEF Capped
      <4>2. CASE u # w \/ k = 0
        BY <1>4, <2>2, <4>1, <4>2
      <4>3. CASE u = w /\ k # 0
        <5>1. row.used[w] <= periods[i].total
          BY <1>7, <2>2, <4>3 DEF Fits
        <5>2. PICK other \in Plans : periods[i].total <= Total[other]
          BY <3>1 DEF Capped
        <5>3. row.used[w] \in Nat /\ Total[other] \in Nat
          BY <1>2, <2>2, TotalsAre
        <5>4. row.used[w] <= Total[other]
          BY <1>4, <5>1, <5>2, <5>3
        <5> QED BY <4>3, <5>4
      <4> QED BY <4>2, <4>3
    <3> QED BY <3>2, <3>3 DEF Capped
  <2>11. \A u \in Units : Ledger(u, periods', req', grant', usage')
    <3>1. periods' = [periods EXCEPT ![i] = Charged(@, w, k)]
      BY <1>7 DEF row
    <3>2. grant' = Charged(grant, w, f) \/ grant' = grant
      BY <2>5 DEF c
    <3>3. usage' = [usage EXCEPT ![w] = @ + (k + f)]
      BY <1>3, <1>7
    <3> QED BY <1>1, <1>2, <1>3, <3>1, <3>2, <3>3, LedgerCharges
  <2>12. Active' = Active
    BY <1>1 DEF Active
  <2>13. Granting'
    <3>1. grant.until > 0 => grant'.until > 0
      BY <2>3, <2>5
    <3>2. q.at \notin {"first", "give"} /\ Idle \in Request
      BY <1>1, IdleSound
    <3> QED BY <1>1, <2>12, <3>1, <3>2, GrantingRests
  <2>14. \A u \in Units : grant'.used[u] <= FreeTotal
    <3>1. \A u \in Units : grant.used[u] <= FreeTotal
      BY DEF IInv
    <3>2. CASE Fits(grant, w, f, FreeTotal)
      <4>1. grant' = c
        BY <1>7, <3>2 DEF c
      <4> QED BY <2>4, <2>6, <3>1, <3>2, <4>1
    <3>3. CASE ~Fits(grant, w, f, FreeTotal)
      BY <1>7, <3>1, <3>3
    <3> QED BY <3>2, <3>3
  <2>15. \A h \in Holds : holds'[h].status = "settled" => media'[h] >= 1
    <3> SUFFICES ASSUME NEW h \in Holds, holds'[h].status = "settled"
                 PROVE  media'[h] >= 1
      OBVIOUS
    <3>1. media[h] \in Nat /\ (holds[h].status = "settled" => media[h] >= 1)
      BY <1>4 DEF IInv
    <3> QED BY <2>9, <3>1
  <2>16. ASSUME Turn(q)
         PROVE  InTurn(Idle, subs, periods', grant', holds', usage', media',
                       stops)
    <3>1. /\ Charge(q, periods, grant, usage) /\ Once(q, subs, periods)
          /\ Bill(q, holds, media) /\ (stops = 0 => Follow(q, subs, periods))
      BY <2>16 DEF Turn, InTurn
    <3>2. grant' = c
      BY <1>1, <1>7, <2>6, <3>1 DEF Charge, c, f, w
    <3>3. \A u \in Units :
            SumOver(UsedIn(periods', u), Periods) + grant'.used[u] = usage'[u]
      <4> SUFFICES ASSUME NEW u \in Units
                   PROVE  SumOver(UsedIn(periods', u), Periods) + c.used[u]
                            = usage'[u]
        BY <3>2
      <4> DEFINE old == UsedIn(periods, u)
                 new == UsedIn(periods', u)
      <4>1. /\ \A j \in Periods : old[j] = periods[j].used[u]
            /\ \A j \in Periods : new[j] = periods'[j].used[u]
        BY DEF UsedIn
      <4> HIDE DEF old, new
      <4>2. \A j \in Periods : old[j] \in Nat /\ new[j] \in Nat
        BY <1>4, <2>7, <4>1 DEF Period, Used
      <4>3. \A j \in Periods \ {i} : old[j] = new[j]
        BY <2>7, <4>1
      <4>4. /\ SumOver(old, Periods) \in Nat /\ SumOver(new, Periods) \in Nat
            /\ SumOver(new, Periods) = SumOver(old, Periods) - old[i] + new[i]
        <5>1. IsFiniteSet(Periods) /\ i \in Periods
          BY <1>2, IdsAssumption
        <5> QED BY <4>2, <4>3, <5>1, SumChange
      <4>5. SumOver(old, Periods) + grant.used[u] = usage[u]
        BY <3>1 DEF Charge, old
      <4>6. SumOver(new, Periods) + c.used[u] = usage'[u]
        <5>1. old[i] \in Nat /\ new[i] = row.used[u]
              /\ old[i] = periods[i].used[u]
          BY <1>2, <2>7, <4>1, <4>2
        <5>2. grant.used[u] \in Nat /\ usage[u] \in Nat
          BY <1>4
        <5>3. CASE u = w
          BY <1>2, <1>3, <2>2, <2>4, <2>8, <4>4, <4>5, <5>1, <5>2, <5>3
        <5>4. CASE u # w
          BY <2>2, <2>4, <2>8, <4>4, <4>5, <5>1, <5>2, <5>4
        <5> QED BY <5>3, <5>4
      <4> QED BY <4>6 DEF new
    <3>4. Charge(Idle, periods', grant', usage')
      <4>1. \A j \in Periods :
              periods'[j].sub = Nobody => periods'[j].used = Unused
        <5>1. periods[i].sub # Nobody
          BY <1>1, <3>1 DEF Charge, i
        <5> QED BY <2>1, <2>7, <3>1, <5>1 DEF Charge
      <4>2. grant'.until = 0 => grant'.used = Unused
        <5> SUFFICES ASSUME grant.until = 0 PROVE c.used = Unused
          BY <2>3, <3>2
        <5>1. ~(f > 0) /\ grant.used = Unused
          BY <1>1, <3>1 DEF Charge, f
        <5>2. f = 0
          BY <1>2, <5>1
        <5>3. \A u \in Units : c.used[u] = Unused[u]
          BY <1>2, <1>4, <2>4, <5>1, <5>2, UnitsAre
        <5> QED BY <2>4, <5>3, UnitsAre DEF Used
      <4> QED BY <3>3, <4>1, <4>2, IdleSound DEF Charge
    <3>5. Bill(Idle, holds', media')
      <4> SUFFICES ASSUME NEW h \in Holds
                   PROVE  media'[h] = IF holds'[h].status = "settled"
                                      THEN 1 ELSE 0
        BY IdleSound DEF Bill
      <4>1. media[h] = IF holds[h].status = "settled" THEN 1 ELSE 0
        BY <3>1 DEF Bill
      <4>2. CASE q.op = "settle" /\ h = q.hold
        <5>1. holds[h].status = "frozen"
          BY <3>1, <4>2 DEF Bill
        <5> QED BY <2>9, <4>1, <4>2, <5>1
      <4>3. CASE q.op # "settle" \/ h # q.hold
        BY <2>9, <4>1, <4>3
      <4> QED BY <4>2, <4>3
    <3>6. \A j \in Periods : /\ periods'[j].sub = periods[j].sub
                             /\ periods'[j].end = periods[j].end
                             /\ periods'[j].total = periods[j].total
      BY <2>1, <2>7
    <3>7. Once(Idle, subs, periods')
      BY <3>1, <3>6, IdleSound DEF Once
    <3>8. stops = 0 => Follow(Idle, subs, periods')
      BY <1>1, <3>1, <3>6 DEF Follow, Follows
    <3> QED BY <3>4, <3>5, <3>7, <3>8 DEF InTurn
  <2>17. overlaps' = 0 =>
           /\ \A o \in Requests \ {p} : Free(o)
           /\ InTurn(Idle, subs', periods', grant', holds', usage', media',
                     stops')
    BY <1>1, <2>16, OwnTurn
  <2>18. /\ now' \in Nat /\ subs' \in [Subs -> Sub]
         /\ grant' \in [until : Nat, used : Used] /\ usage' \in Used
         /\ stops' \in 0..MaxDisturbed /\ overlaps' \in 0..MaxDisturbed
    BY <1>1, <1>4, <2>3, <2>5, <2>8 DEF TypeOK, Used
  <2>19. /\ \A j \in Periods : Capped(periods'[j])
         /\ \A s \in Subs : subs[s].plan # Nobody => subs'[s].plan # Nobody
    BY <1>1, <2>7, <2>10 DEF IInv
  <2>20. Idle \in Request /\ OpSound(Idle, subs')
    BY IdleSound
  <2> QED BY <1>1, <2>7, <2>9, <2>11, <2>13, <2>14, <2>15, <2>17, <2>18,
             <2>19, <2>20, StepKeeps
<1> QED BY <1>5, <1>6, <1>7

-----------------------------------------------------------------------------
(* The clock, and the whole                                                *)

LEMMA TickKeeps ==
    ASSUME IInv, Tick
    PROVE  IInv'
<1>1. /\ now' = now + 1 /\ TypeOK
      /\ UNCHANGED <<subs, periods, grant, usage, holds, media, req, stops,
                     overlaps>>
  BY DEF Tick, tables, quota, IInv
<1>2. TypeOK'
  BY <1>1 DEF TypeOK
<1>3. /\ \A p \in Requests : OpSound(req'[p], subs')
      /\ \A i \in Periods : Capped(periods'[i])
      /\ \A u \in Units : grant'.used[u] <= FreeTotal
      /\ \A u \in Units : Ledger(u, periods', req', grant', usage')
      /\ \A h \in Holds : holds'[h].status = "settled" => media'[h] >= 1
  BY <1>1 DEF IInv
<1>4. Granting'
  BY <1>1 DEF IInv, Granting, Active
<1>5. Serial'
  BY <1>1 DEF IInv, Serial, Quiet, Turn, Free
<1> QED BY <1>2, <1>3, <1>4, <1>5 DEF IInv, Capped, OpSound

LEMMA StutterKeeps ==
    ASSUME IInv, UNCHANGED vars
    PROVE  IInv'
<1>1. /\ UNCHANGED <<now, subs, periods, grant, usage, holds, media, req,
                     stops, overlaps>>
      /\ TypeOK
  BY DEF vars, tables, quota, IInv
<1>2. TypeOK'
  BY <1>1 DEF TypeOK
<1>3. /\ \A p \in Requests : OpSound(req'[p], subs')
      /\ \A i \in Periods : Capped(periods'[i])
      /\ \A u \in Units : grant'.used[u] <= FreeTotal
      /\ \A u \in Units : Ledger(u, periods', req', grant', usage')
      /\ \A h \in Holds : holds'[h].status = "settled" => media'[h] >= 1
  BY <1>1 DEF IInv
<1>4. Granting'
  BY <1>1 DEF IInv, Granting, Active
<1>5. Serial'
  BY <1>1 DEF IInv, Serial, Quiet, Turn, Free
<1> QED BY <1>2, <1>3, <1>4, <1>5 DEF IInv, Capped, OpSound

LEMMA NextIInv == IInv /\ [Next]_vars => IInv'
<1> SUFFICES ASSUME IInv, [Next]_vars PROVE IInv'
  OBVIOUS
<1>1. CASE Tick
  BY <1>1, TickKeeps
<1>2. CASE UNCHANGED vars
  BY <1>2, StutterKeeps
<1>3. ASSUME NEW p \in Requests, StartQuery(p) PROVE IInv'
  BY <1>3, StartQueryKeeps
<1>4. ASSUME NEW p \in Requests, NEW n \in Amounts, StartUsage(p, n)
      PROVE  IInv'
  BY <1>4, StartUsageKeeps
<1>5. ASSUME NEW p \in Requests, NEW h \in Holds,
             NEW n \in Amounts \cup Estimates,
             StartHold(p, h, n) \/ StartSettle(p, h, n)
      PROVE  IInv'
  BY <1>5, StartHoldKeeps
<1>6. ASSUME NEW p \in Requests, NEW h \in Holds, StartRefund(p, h)
      PROVE  IInv'
  BY <1>6, StartRefundKeeps
<1>7. ASSUME NEW p \in Requests, NEW plan \in Plans,
             StartChange(p, plan) \/ StartActivate(p, plan)
      PROVE  IInv'
  BY <1>7, StartChangeKeeps, StartActivateKeeps
<1>8. ASSUME NEW p \in Requests, Continue(p) PROVE IInv'
  <2>1. CASE SavePlan(p) \/ Roll(p) \/ FindPeriod(p)
    BY <2>1, SavePlanKeeps, RollKeeps, FindPeriodKeeps
  <2>2. CASE KeepPeriod(p) \/ InsertPeriod(p) \/ Resave(p)
    BY <2>2, KeepPeriodKeeps, InsertPeriodKeeps, ResaveKeeps
  <2>3. CASE Subscribe(p) \/ Give(p) \/ ReadGrant(p)
    BY <2>3, SubscribeKeeps, GiveKeeps, ReadGrantKeeps
  <2>4. CASE Commit(p) \/ Freeze(p) \/ Release(p)
    BY <2>4, CommitKeeps, FreezeKeeps, ReleaseKeeps
  <2> QED BY <1>8, <2>1, <2>2, <2>3, <2>4 DEF Continue
<1>9. ASSUME NEW p \in Requests, Stop(p) PROVE IInv'
  BY <1>9, StopKeeps
<1> QED BY <1>1, <1>2, <1>3, <1>4, <1>5, <1>6, <1>7, <1>8, <1>9 DEF Next

LEMMA Inductive == Spec => []IInv
BY InitIInv, NextIInv, PTL DEF Spec

-----------------------------------------------------------------------------
(* What follows                                                            *)

\* The rows, the loaded copies and the counters keep their shape.
THEOREM TypeCorrect == Spec => []TypeOK
<1>1. IInv => TypeOK
  BY DEF IInv
<1> QED BY <1>1, Inductive, PTL

\* What an organisation is charged is never more than what was recorded, and
\* exactly that without two operations at once; neither the free grant nor a
\* period is overdrawn (recordUsage, settleHold, ensureCurrentPeriod).
THEOREM ChargeIsRecorded == Spec => []ChargesSound
<1>1. ASSUME IInv, NEW u \in Units
      PROVE  /\ Deducted(u) <= usage[u]
             /\ overlaps = 0 => Deducted(u) = usage[u]
  <2> DEFINE d == UsedIn(periods, u)
  <2>1. Deducted(u) = SumOver(d, Periods) + grant.used[u]
    <3>1. MapThenSumSet(LAMBDA i : periods[i].used[u], Periods)
            = SumOver(d, Periods)
      BY UsedSum
    <3> QED BY <3>1 DEF Deducted
  <2>2. \A i \in Periods : d[i] = periods[i].used[u]
    BY DEF UsedIn
  <2>3. \A i \in Periods : d[i] \in Nat
    BY <1>1, <2>2 DEF IInv, TypeOK, Period, Used
  <2>4. grant.used[u] \in Nat /\ usage[u] \in Nat /\ IsFiniteSet(Periods)
    BY <1>1, IdsAssumption DEF IInv, TypeOK, Used
  <2>5. overlaps = 0 => SumOver(d, Periods) + grant.used[u] = usage[u]
    BY <1>1 DEF IInv, Serial, Turn, InTurn, Charge
  <2> HIDE DEF d
  <2>6. Deducted(u) <= usage[u]
    <3>1. PICK c \in [Periods -> Nat] :
            Bounds(c, u, periods, req, grant, usage)
      BY <1>1 DEF IInv, Ledger
    <3>2. \A i \in Periods : d[i] \in Nat /\ c[i] \in Nat /\ d[i] <= c[i]
      BY <2>2, <2>3, <3>1 DEF Bounds
    <3>3. SumOver(d, Periods) <= SumOver(c, Periods)
      BY <2>4, <3>2, SumLe
    <3>4. SumOver(d, Periods) \in Nat /\ SumOver(c, Periods) \in Nat
      BY <2>4, <3>2, SumType
    <3>5. SumOver(c, Periods) + grant.used[u] <= usage[u]
      BY <3>1 DEF Bounds
    <3> QED BY <2>1, <2>4, <3>3, <3>4, <3>5
  <2> QED BY <2>1, <2>5, <2>6
<1>2. ASSUME IInv, NEW u \in Units
      PROVE  /\ grant.used[u] <= FreeTotal
             /\ \A i \in Periods : \E plan \in Plans :
                  periods[i].used[u] <= Total[plan]
  BY <1>2 DEF IInv, Capped
<1>3. IInv => ChargesSound
  BY <1>1, <1>2 DEF ChargesSound, ChargedAsRecorded, NeverOverdrawn
<1> QED BY <1>3, Inductive, PTL

\* A settled hold has its usage record; without two operations at once exactly
\* one, and a hold that is not settled has none (settleHold, refundHold).
THEOREM BillIsSentOnce == Spec => []BilledOnce
<1>1. IInv => BilledOnce
  BY DEF IInv, BilledOnce, Serial, Turn, InTurn, Bill
<1> QED BY <1>1, Inductive, PTL

\* Without two operations at once a subscription has one period at a time,
\* whose total follows the plan; and who has a subscription got the free grant
\* unless an operation ended early (ensureCurrentPeriod, upgrade, activate).
THEOREM QuotaIsGiven == Spec => []QuotaGiven
<1>1. ASSUME IInv PROVE OnePeriodAtATime
  BY <1>1, Zenon DEF IInv, OnePeriodAtATime, Serial, Turn, InTurn, Once
<1>2. ASSUME IInv PROVE QuotaFollowsPlan
  <2> SUFFICES ASSUME overlaps = 0, stops = 0, Quiet,
                      NEW i \in Periods, NEW s \in Active,
                      periods[i].sub = s, periods[i].end = subs[s].end
               PROVE  periods[i].total = Total[subs[s].plan]
    BY DEF QuotaFollowsPlan
  <2>1. Follow(Idle, subs, periods)
    BY <1>2 DEF IInv, Serial, Turn, InTurn, Quiet, Free
  <2>2. Idle.op # "upgrade" /\ s \in Subs /\ subs[s].plan # Nobody
    BY IdleSound DEF Active
  <2> QED BY <2>1, <2>2 DEF Follow, Follows
<1>3. ASSUME IInv PROVE GrantIssued
  BY <1>3, IdleSound DEF IInv, Granting, GrantIssued, Quiet, Free
<1>4. IInv => QuotaGiven
  BY <1>1, <1>2, <1>3 DEF QuotaGiven
<1> QED BY <1>4, Inductive, PTL
=============================================================================
