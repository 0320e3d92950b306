---------------------------- MODULE MoneyProofs ----------------------------
(***************************************************************************)
(* Where the money of a user comes from and goes to: the wallet (Balance), *)
(* the recharge orders that fill it (Recharge) and the settlement of a     *)
(* long task that pays into it, with its disputes (LongTaskSettlement).    *)
(*                                                                         *)
(* Safety of the wallet for every set of users, withdrawals, admins and    *)
(* amounts.  The promises of Balance are not inductive alone: a late save  *)
(* is harmless to a decided review only because the copy it writes, and    *)
(* the row a completion has read, were approved.  InFlight says so, and    *)
(* with it the tables implement Wallet.                                    *)
(* FrozenBacksPending compares a column with a sum over the rows.  What    *)
(* such a sum does when one row changes is an induction over sets; it is   *)
(* made by taking a smallest set that breaks the claim (MinimalSet).       *)
(***************************************************************************)
EXTENDS Balance, Recharge, LongTaskSettlement, FiniteSetTheorems, TLAPS

\* Every request that will still save a withdrawal row saves an approved one.
InFlight ==
    /\ \A w \in Withdrawals :
         tail[w].pc # "idle" => tail[w].status \in {"APPROVED", "COMPLETED"}
    /\ \A a \in Admins :
         completing[a] # NoWithdrawal => Approved(completing[a])

IInv == TypeOK /\ Conservation /\ PayoutOnlyApproved /\ InFlight

LEMMA InitIInv == Init => IInv
<1> SUFFICES ASSUME Init PROVE IInv
  OBVIOUS
<1>1. TypeOK
  BY SMT DEF Init, TypeOK, EmptyBalance, BalanceRow, NoRow, WithdrawalRow,
     Statuses, Methods, TransactionIds, NoTail, ReviewTail
<1>2. Conservation
  BY DEF Init, Conservation, Conserved, EmptyBalance, ChangeTypes, IncomeTypes
<1>3. PayoutOnlyApproved /\ InFlight
  BY DEF Init, PayoutOnlyApproved, InFlight, NoTail
<1> QED
  BY <1>1, <1>2, <1>3 DEF IInv

-----------------------------------------------------------------------------
(* The rows keep their shape and no wallet is overdrawn.                    *)

LEMMA RecordType ==
  ASSUME TypeOK, NEW u \in Users, NEW type \in ChangeTypes, NEW amount \in Int,
         Record(u, type, amount)
  PROVE  records' \in [Users -> [ChangeTypes -> Int]]
  BY DEF Record, TypeOK

LEMMA RowUpdate ==
  ASSUME NEW r \in WithdrawalRow, NEW s \in Statuses, NEW t \in TransactionIds
  PROVE  /\ [r EXCEPT !.status = s] \in WithdrawalRow
         /\ [r EXCEPT !.status = s, !.transactionId = t] \in WithdrawalRow
  BY DEF WithdrawalRow

LEMMA Unfreeze ==
  ASSUME NEW b \in BalanceRow, NEW n \in Int
  PROVE  [b EXCEPT !.frozen = @ - n, !.available = @ + n] \in BalanceRow
<1>1. b.frozen - n \in Int /\ b.available + n \in Int
  BY DEF BalanceRow
<1>2. [b EXCEPT !.frozen = b.frozen - n, !.available = b.available + n]
         \in BalanceRow
  BY <1>1 DEF BalanceRow
<1> QED
  BY <1>2 DEF BalanceRow

LEMMA PayOut ==
  ASSUME NEW b \in BalanceRow, NEW n \in Int
  PROVE  [b EXCEPT !.frozen = @ - n, !.totalWithdrawal = @ + n] \in BalanceRow
<1>1. b.frozen - n \in Int /\ b.totalWithdrawal + n \in Int
  BY DEF BalanceRow
<1>2. [b EXCEPT !.frozen = b.frozen - n,
                !.totalWithdrawal = b.totalWithdrawal + n] \in BalanceRow
  BY <1>1 DEF BalanceRow
<1> QED
  BY <1>2 DEF BalanceRow

LEMMA StatusSave ==
  ASSUME TypeOK, NEW w \in Withdrawals,
         NEW s \in Statuses, NEW t \in TransactionIds,
         \/ withdrawal' = [withdrawal EXCEPT ![w].status = s]
         \/ withdrawal' = [withdrawal EXCEPT ![w].status = s,
                                             ![w].transactionId = t]
  PROVE  withdrawal' \in [Withdrawals -> WithdrawalRow]
<1>1. /\ withdrawal \in [Withdrawals -> WithdrawalRow]
      /\ withdrawal[w] \in WithdrawalRow
  BY DEF TypeOK
<1> DEFINE one == [withdrawal[w] EXCEPT !.status = s]
           two == [withdrawal[w] EXCEPT !.status = s, !.transactionId = t]
<1>2. one \in WithdrawalRow /\ two \in WithdrawalRow
  BY <1>1, RowUpdate
<1>3. \/ withdrawal' = [withdrawal EXCEPT ![w] = one]
      \/ withdrawal' = [withdrawal EXCEPT ![w] = two]
  OBVIOUS
<1> HIDE DEF one, two
<1> QED
  BY <1>1, <1>2, <1>3

LEMMA TypeStep == TypeOK /\ [Next]_vars => TypeOK'
<1> SUFFICES ASSUME TypeOK, [Next]_vars PROVE TypeOK'
  OBVIOUS
<1> USE DEF TypeOK, Covers, Reviewable, Completable
<1>1. ASSUME NEW u \in Users, GetOrCreateBalance(u) PROVE TypeOK'
  BY <1>1 DEF GetOrCreateBalance
<1>2. ASSUME NEW u \in Users, NEW amount \in Amounts, NEW type \in IncomeTypes,
             AddIncome(u, amount, type)
      PROVE TypeOK'
  <2>1. amount \in Int
    BY AmountsAssumption
  <2>2. type \in ChangeTypes
    BY DEF ChangeTypes
  <2>3. records' \in [Users -> [ChangeTypes -> Int]]
    BY <1>2, <2>1, <2>2, RecordType DEF AddIncome
  <2>4. /\ balance' \in [Users -> BalanceRow]
        /\ \A x \in Users : balance'[x].available >= 0
    BY <1>2, <2>1 DEF AddIncome, BalanceRow
  <2> QED
    BY <1>2, <2>3, <2>4 DEF AddIncome
<1>3. ASSUME NEW u \in Users, NEW amount \in Amounts, PayFromBalance(u, amount)
      PROVE TypeOK'
  <2>1. amount \in Int
    BY AmountsAssumption
  <2>2. records' \in [Users -> [ChangeTypes -> Int]]
    <3>1. "ORDER_PAYMENT" \in ChangeTypes /\ -amount \in Int
      BY <2>1 DEF ChangeTypes
    <3> QED
      BY <1>3, <3>1, RecordType DEF PayFromBalance
  <2>3. /\ balance' \in [Users -> BalanceRow]
        /\ \A x \in Users : balance'[x].available >= 0
    BY <1>3, <2>1 DEF PayFromBalance, BalanceRow
  <2> QED
    BY <1>3, <2>2, <2>3 DEF PayFromBalance
<1>4. ASSUME NEW u \in Users, NEW w \in Withdrawals, NEW amount \in Amounts,
             NEW method \in Methods, RequestWithdrawal(u, w, amount, method)
      PROVE TypeOK'
  <2>1. amount \in Int
    BY AmountsAssumption
  <2>2. records' \in [Users -> [ChangeTypes -> Int]]
    <3>1. "WITHDRAWAL" \in ChangeTypes /\ -amount \in Int
      BY <2>1 DEF ChangeTypes
    <3> QED
      BY <1>4, <3>1, RecordType DEF RequestWithdrawal
  <2>3. /\ balance' \in [Users -> BalanceRow]
        /\ \A x \in Users : balance'[x].available >= 0
    BY <1>4, <2>1 DEF RequestWithdrawal, BalanceRow
  <2>4. withdrawal' \in [Withdrawals -> WithdrawalRow]
    BY <1>4, <2>1 DEF RequestWithdrawal, WithdrawalRow, Statuses,
                      TransactionIds
  <2> QED
    BY <1>4, <2>2, <2>3, <2>4 DEF RequestWithdrawal
<1>5. ASSUME NEW w \in Withdrawals, Approve(w) \/ Reject(w) PROVE TypeOK'
  <2>1. /\ withdrawal[w].amount \in Nat
        /\ withdrawal[w].user \in Users
    BY <1>5 DEF Approve, Reject, WithdrawalRow
  <2>2. withdrawal' \in [Withdrawals -> WithdrawalRow]
    <3>1. {"APPROVED", "REJECTED"} \subseteq Statuses
          /\ "none" \in TransactionIds
      BY DEF Statuses, TransactionIds
    <3> QED
      BY <1>5, <3>1, StatusSave DEF Approve, Reject
  <2>3. /\ balance' \in [Users -> BalanceRow]
        /\ \A x \in Users : balance'[x].available >= 0
    <3>1. CASE Approve(w)
      <4> DEFINE u == withdrawal[w].user
                 n == withdrawal[w].amount
      <4>1. /\ n \in Int /\ u \in Users
            /\ balance' = [balance EXCEPT ![u].frozen = @ - n,
                                          ![u].totalWithdrawal = @ + n]
        BY <2>1, <3>1 DEF Approve
      <4> HIDE DEF u, n
      <4>2. /\ balance[u] \in BalanceRow
            /\ balance[u].available >= 0
        BY <4>1
      <4>3. balance' = [balance EXCEPT ![u] = [balance[u] EXCEPT
                                 !.frozen = @ - n, !.totalWithdrawal = @ + n]]
        BY <4>1
      <4>4. [balance[u] EXCEPT !.frozen = @ - n, !.totalWithdrawal = @ + n]
              \in BalanceRow
        BY ONLY <4>1, <4>2, PayOut
      <4>5. balance' \in [Users -> BalanceRow]
        BY <4>3, <4>4
      <4>6. \A x \in Users : balance'[x].available >= 0
        BY <4>1, <4>2 DEF BalanceRow
      <4> QED
        BY <4>5, <4>6
    <3>2. CASE Reject(w)
      <4> DEFINE u == withdrawal[w].user
                 n == withdrawal[w].amount
      <4>1. /\ n \in Nat /\ u \in Users
            /\ balance' = [balance EXCEPT ![u].frozen = @ - n,
                                          ![u].available = @ + n]
        BY <2>1, <3>2 DEF Reject
      <4> HIDE DEF u, n
      <4>2. [balance[u] EXCEPT !.frozen = @ - n, !.available = @ + n]
              \in BalanceRow
        <5>1. balance[u] \in BalanceRow /\ n \in Int
          BY <4>1
        <5> QED
          BY ONLY <5>1, Unfreeze
      <4>3. balance' = [balance EXCEPT ![u] = [balance[u] EXCEPT
                                 !.frozen = @ - n, !.available = @ + n]]
        BY <4>1
      <4>4. balance' \in [Users -> BalanceRow]
        BY <4>1, <4>2, <4>3
      <4>5. \A x \in Users : balance'[x].available >= 0
        BY <4>1 DEF BalanceRow
      <4> QED
        BY <4>4, <4>5
    <3> QED
      BY <1>5, <3>1, <3>2
  <2>4. tail' \in [Withdrawals -> ReviewTail]
    <3> DEFINE started == [pc |-> "transferring", status |-> "APPROVED",
                           transactionId |-> withdrawal[w].transactionId]
    <3>1. withdrawal[w].transactionId \in TransactionIds
      BY DEF WithdrawalRow
    <3>2. started \in ReviewTail
      BY <3>1 DEF ReviewTail, Statuses
    <3>3. tail' = tail \/ tail' = [tail EXCEPT ![w] = started]
      BY <1>5 DEF Approve, Reject
    <3> HIDE DEF started
    <3> QED
      BY <3>2, <3>3
  <2> QED
    BY <1>5, <2>2, <2>3, <2>4 DEF Approve, Reject
<1>6. ASSUME NEW w \in Withdrawals,
             TransferSucceeds(w) \/ TransferNotSuccessful(w) \/ CrashReview(w)
      PROVE TypeOK'
  <2>1. tail' \in [Withdrawals -> ReviewTail]
    <3>1. NoTail \in ReviewTail
      BY DEF NoTail, ReviewTail, Statuses, TransactionIds
    <3>2. [pc |-> "saving", status |-> "COMPLETED", transactionId |-> "alipay"]
            \in ReviewTail
      BY DEF ReviewTail, Statuses, TransactionIds
    <3>3. [tail[w] EXCEPT !.pc = "saving"] \in ReviewTail
      BY DEF ReviewTail
    <3>4. CASE TransferSucceeds(w)
      BY <3>2, <3>4 DEF TransferSucceeds
    <3>5. CASE TransferNotSuccessful(w)
      BY <3>3, <3>5 DEF TransferNotSuccessful
    <3>6. CASE CrashReview(w)
      BY <3>1, <3>6 DEF CrashReview
    <3> QED
      BY <1>6, <3>4, <3>5, <3>6
  <2>2. payouts' \in [Withdrawals -> SUBSET {"alipay", "offline"}]
    BY <1>6 DEF TransferSucceeds, TransferNotSuccessful, CrashReview
  <2> QED
    BY <1>6, <2>1, <2>2 DEF TransferSucceeds, TransferNotSuccessful, CrashReview
<1>7. ASSUME NEW w \in Withdrawals, SaveReviewed(w) PROVE TypeOK'
  <2>1. tail' \in [Withdrawals -> ReviewTail]
    BY <1>7 DEF SaveReviewed, NoTail, ReviewTail, Statuses, TransactionIds
  <2>2. withdrawal' \in [Withdrawals -> WithdrawalRow]
    <3>1. tail[w].status \in Statuses /\ tail[w].transactionId \in TransactionIds
      BY DEF ReviewTail
    <3> QED
      BY <1>7, <3>1, StatusSave DEF SaveReviewed
  <2> QED
    BY <1>7, <2>1, <2>2 DEF SaveReviewed
<1>8. ASSUME NEW a \in Admins,
             CompleteSave(a) \/ \E w \in Withdrawals : CompleteRead(a, w)
      PROVE TypeOK'
  <2>1. CASE CompleteSave(a)
    <3>1. withdrawal' \in [Withdrawals -> WithdrawalRow]
      <4>1. "COMPLETED" \in Statuses /\ "manual" \in TransactionIds
        BY DEF Statuses, TransactionIds
      <4>2. completing[a] \in Withdrawals
        BY <2>1 DEF CompleteSave
      <4> QED
        BY <2>1, <4>1, <4>2, StatusSave DEF CompleteSave
    <3> QED
      BY <2>1, <3>1 DEF CompleteSave
  <2>2. CASE \E w \in Withdrawals : CompleteRead(a, w)
    BY <2>2 DEF CompleteRead
  <2> QED
    BY <1>8, <2>1, <2>2
<1> QED
  BY <1>1, <1>2, <1>3, <1>4, <1>5, <1>6, <1>7, <1>8
     DEF Next, WalletStep, WithdrawalStep, CompleteStep, vars

-----------------------------------------------------------------------------
(* Conservation: each step moves an amount between two terms of one wallet. *)

\* What is spent leaves the sum and the journal alike.
LEMMA Spending ==
  ASSUME NEW a \in Int, NEW f \in Int, NEW t \in Int, NEW i \in Int,
         NEW r \in Int, NEW n \in Int, a + f + t = i + r
  PROVE  (a - n) + f + t = i + (r - n)
  OBVIOUS

LEMMA ConservationStep ==
  TypeOK /\ Conservation /\ [Next]_vars => Conservation'
<1> SUFFICES ASSUME TypeOK, Conservation, [Next]_vars
             PROVE  \A x \in Users : Conserved(balance'[x], records'[x])
  BY DEF Conservation
<1>0. /\ balance \in [Users -> BalanceRow]
      /\ records \in [Users -> [ChangeTypes -> Int]]
      /\ \A x \in Users : Conserved(balance[x], records[x])
  BY DEF TypeOK, Conservation
<1>1. ASSUME NEW u \in Users, NEW amount \in Amounts, NEW type \in IncomeTypes,
             AddIncome(u, amount, type)
      PROVE  \A x \in Users : Conserved(balance'[x], records'[x])
  <2>1. amount \in Int /\ type \in ChangeTypes
    BY AmountsAssumption DEF ChangeTypes
  <2>2. /\ balance' = [balance EXCEPT ![u].available = @ + amount,
                                      ![u].totalIncome = @ + amount]
        /\ records' = [records EXCEPT ![u][type] = @ + amount]
    BY <1>1 DEF AddIncome, Record
  <2>3. ASSUME NEW x \in Users, x # u
        PROVE  Conserved(balance'[x], records'[x])
    BY <1>0, <2>2, <2>3
  <2>4. Conserved(balance'[u], records'[u])
    <3>1. /\ balance'[u].available = balance[u].available + amount
          /\ balance'[u].totalIncome = balance[u].totalIncome + amount
          /\ balance'[u].frozen = balance[u].frozen
          /\ balance'[u].totalWithdrawal = balance[u].totalWithdrawal
      BY <1>0, <2>1, <2>2 DEF BalanceRow
    <3>2. \A t \in ChangeTypes : records'[u][t] = IF t = type
                                                  THEN records[u][t] + amount
                                                  ELSE records[u][t]
      BY <1>0, <2>1, <2>2
    <3>3. records[u] \in [ChangeTypes -> Int] /\ balance[u] \in BalanceRow
          /\ Conserved(balance[u], records[u])
      BY <1>0
    <3>4. /\ records[u]["ORDER_PAYMENT"] \in Int
          /\ records[u]["ORDER_INCOME"] \in Int
          /\ records[u]["REFUND"] \in Int
          /\ records[u]["DEPOSIT"] \in Int
      BY <3>3 DEF ChangeTypes, IncomeTypes
    <3>5. /\ records'[u]["ORDER_PAYMENT"] = records[u]["ORDER_PAYMENT"]
          /\ records'[u]["ORDER_INCOME"] + records'[u]["REFUND"]
               + records'[u]["DEPOSIT"]
             = records[u]["ORDER_INCOME"] + records[u]["REFUND"]
               + records[u]["DEPOSIT"] + amount
          /\ records'[u]["ORDER_INCOME"] \in Int
          /\ records'[u]["REFUND"] \in Int
          /\ records'[u]["DEPOSIT"] \in Int
      BY <2>1, <3>2, <3>4 DEF ChangeTypes, IncomeTypes
    <3>6. /\ balance[u].available \in Int /\ balance[u].frozen \in Int
          /\ balance[u].totalIncome \in Int /\ balance[u].totalWithdrawal \in Int
      BY <3>3 DEF BalanceRow
    <3>7. Conserved(balance[u], records[u])
      BY <3>3
    <3>8. /\ balance[u].available + balance[u].frozen + balance[u].totalWithdrawal
               = balance[u].totalIncome + records[u]["ORDER_PAYMENT"]
          /\ balance[u].totalIncome
               = records[u]["ORDER_INCOME"] + records[u]["REFUND"]
                 + records[u]["DEPOSIT"]
      BY <3>7 DEF Conserved
    <3>9. balance'[u].available + balance'[u].frozen + balance'[u].totalWithdrawal
            = balance'[u].totalIncome + records'[u]["ORDER_PAYMENT"]
      BY ONLY <2>1, <3>1, <3>4, <3>5, <3>6, <3>8
    <3>10. balance'[u].totalIncome
             = records'[u]["ORDER_INCOME"] + records'[u]["REFUND"]
               + records'[u]["DEPOSIT"]
      BY ONLY <2>1, <3>1, <3>4, <3>5, <3>6, <3>8
    <3> QED
      BY <3>9, <3>10 DEF Conserved
  <2> QED
    BY <2>3, <2>4
<1>2. ASSUME NEW u \in Users, NEW amount \in Amounts, PayFromBalance(u, amount)
      PROVE  \A x \in Users : Conserved(balance'[x], records'[x])
  <2>1. amount \in Int
    BY AmountsAssumption
  <2>2. /\ balance' = [balance EXCEPT ![u].available = @ - amount]
        /\ records' = [records EXCEPT ![u]["ORDER_PAYMENT"] = @ + (-amount)]
    BY <1>2 DEF PayFromBalance, Record
  <2>3. ASSUME NEW x \in Users, x # u
        PROVE  Conserved(balance'[x], records'[x])
    BY <1>0, <2>2, <2>3
  <2>4. Conserved(balance'[u], records'[u])
    <3>1. /\ balance'[u].available = balance[u].available - amount
          /\ balance'[u].totalIncome = balance[u].totalIncome
          /\ balance'[u].frozen = balance[u].frozen
          /\ balance'[u].totalWithdrawal = balance[u].totalWithdrawal
      BY <1>0, <2>1, <2>2 DEF BalanceRow
    <3>2. /\ records'[u]["ORDER_PAYMENT"] = records[u]["ORDER_PAYMENT"] - amount
          /\ records'[u]["ORDER_INCOME"] = records[u]["ORDER_INCOME"]
          /\ records'[u]["REFUND"] = records[u]["REFUND"]
          /\ records'[u]["DEPOSIT"] = records[u]["DEPOSIT"]
          /\ records[u]["ORDER_PAYMENT"] \in Int
          /\ records[u]["ORDER_INCOME"] \in Int
          /\ records[u]["REFUND"] \in Int
          /\ records[u]["DEPOSIT"] \in Int
      BY <1>0, <2>1, <2>2 DEF ChangeTypes, IncomeTypes
    <3>3. /\ balance[u].available \in Int /\ balance[u].frozen \in Int
          /\ balance[u].totalIncome \in Int /\ balance[u].totalWithdrawal \in Int
      BY <1>0 DEF BalanceRow
    <3>4. Conserved(balance[u], records[u])
      BY <1>0
    <3>5. /\ balance[u].available + balance[u].frozen + balance[u].totalWithdrawal
               = balance[u].totalIncome + records[u]["ORDER_PAYMENT"]
          /\ balance[u].totalIncome
               = records[u]["ORDER_INCOME"] + records[u]["REFUND"]
                 + records[u]["DEPOSIT"]
      BY <3>4 DEF Conserved
    <3>6. (balance[u].available - amount) + balance[u].frozen
            + balance[u].totalWithdrawal
            = balance[u].totalIncome + (records[u]["ORDER_PAYMENT"] - amount)
      <4> DEFINE a == balance[u].available
                 f == balance[u].frozen
                 t == balance[u].totalWithdrawal
                 i == balance[u].totalIncome
                 r == records[u]["ORDER_PAYMENT"]
      <4>1. /\ a \in Int /\ f \in Int /\ t \in Int /\ i \in Int /\ r \in Int
            /\ amount \in Int
            /\ a + f + t = i + r
        BY <2>1, <3>2, <3>3, <3>5
      <4> HIDE DEF a, f, t, i, r
      <4>2. (a - amount) + f + t = i + (r - amount)
        BY ONLY <4>1, Spending
      <4> QED
        BY ONLY <4>2 DEF a, f, t, i, r
    <3>7. balance'[u].totalIncome
            = records'[u]["ORDER_INCOME"] + records'[u]["REFUND"]
              + records'[u]["DEPOSIT"]
      BY ONLY <3>1, <3>2, <3>5
    <3> QED
      BY ONLY <3>1, <3>2, <3>6, <3>7 DEF Conserved
  <2> QED
    BY <2>3, <2>4
<1>3. ASSUME NEW u \in Users, NEW w \in Withdrawals, NEW amount \in Amounts,
             NEW method \in Methods, RequestWithdrawal(u, w, amount, method)
      PROVE  \A x \in Users : Conserved(balance'[x], records'[x])
  <2>1. amount \in Int
    BY AmountsAssumption
  <2>2. /\ balance' = [balance EXCEPT ![u].available = @ - amount,
                                      ![u].frozen = @ + amount]
        /\ records' = [records EXCEPT ![u]["WITHDRAWAL"] = @ + (-amount)]
    BY <1>3 DEF RequestWithdrawal, Record
  <2>3. ASSUME NEW x \in Users, x # u
        PROVE  Conserved(balance'[x], records'[x])
    BY <1>0, <2>2, <2>3
  <2>4. Conserved(balance'[u], records'[u])
    <3>1. /\ balance'[u].available = balance[u].available - amount
          /\ balance'[u].totalIncome = balance[u].totalIncome
          /\ balance'[u].frozen = balance[u].frozen + amount
          /\ balance'[u].totalWithdrawal = balance[u].totalWithdrawal
      BY <1>0, <2>1, <2>2 DEF BalanceRow
    <3>2. \A t \in IncomeTypes \cup {"ORDER_PAYMENT"} :
            records'[u][t] = records[u][t]
      BY <1>0, <2>1, <2>2 DEF ChangeTypes, IncomeTypes
    <3>3. records[u] \in [ChangeTypes -> Int] /\ balance[u] \in BalanceRow
          /\ Conserved(balance[u], records[u])
      BY <1>0
    <3> QED
      BY <2>1, <3>1, <3>2, <3>3
         DEF Conserved, ChangeTypes, IncomeTypes, BalanceRow
  <2> QED
    BY <2>3, <2>4
<1>4. ASSUME NEW w \in Withdrawals, Approve(w) \/ Reject(w)
      PROVE  \A x \in Users : Conserved(balance'[x], records'[x])
  <2> DEFINE u == withdrawal[w].user
             n == withdrawal[w].amount
  <2>1. u \in Users /\ n \in Int
    BY <1>4 DEF Approve, Reject, Reviewable, TypeOK, WithdrawalRow
  <2>2. /\ records' = records
        /\ \/ balance' = [balance EXCEPT ![u].frozen = @ - n,
                                         ![u].totalWithdrawal = @ + n]
           \/ balance' = [balance EXCEPT ![u].frozen = @ - n,
                                         ![u].available = @ + n]
    BY <1>4 DEF Approve, Reject
  <2> HIDE DEF u, n
  <2>3. ASSUME NEW x \in Users, x # u
        PROVE  Conserved(balance'[x], records'[x])
    BY <1>0, <2>2, <2>3
  <2>4. Conserved(balance'[u], records'[u])
    <3>1. /\ balance'[u].totalIncome = balance[u].totalIncome
          /\ balance'[u].frozen = balance[u].frozen - n
          /\ \/ /\ balance'[u].totalWithdrawal = balance[u].totalWithdrawal + n
                /\ balance'[u].available = balance[u].available
             \/ /\ balance'[u].totalWithdrawal = balance[u].totalWithdrawal
                /\ balance'[u].available = balance[u].available + n
      BY <1>0, <2>1, <2>2 DEF BalanceRow
    <3>2. /\ records'[u] = records[u]
          /\ balance[u] \in BalanceRow
          /\ Conserved(balance[u], records[u])
      BY <1>0, <2>1, <2>2
    <3> QED
      BY <2>1, <3>1, <3>2 DEF Conserved, BalanceRow
  <2> QED
    BY <2>3, <2>4
<1>5. ASSUME balance' = balance, records' = records
      PROVE  \A x \in Users : Conserved(balance'[x], records'[x])
  BY <1>0, <1>5
<1> QED
  BY <1>1, <1>2, <1>3, <1>4, <1>5
     DEF Next, WalletStep, WithdrawalStep, CompleteStep, vars,
         GetOrCreateBalance, TransferSucceeds, TransferNotSuccessful,
         SaveReviewed, CrashReview, CompleteRead, CompleteSave
-----------------------------------------------------------------------------
(* Only approved withdrawals are worked on: the guards of reviewWithdrawal  *)
(* and completeWithdrawal read the row before the copy is made, and from    *)
(* APPROVED or COMPLETED every save leads to APPROVED or COMPLETED.         *)

Deciding == PayoutOnlyApproved /\ InFlight

\* No step takes a withdrawal out of {APPROVED, COMPLETED} or revives a
\* rejected one.
DecidedKept ==
    \A w \in Withdrawals :
      /\ withdrawal[w].status = "REJECTED" => withdrawal'[w] = withdrawal[w]
      /\ Approved(w) => Approved(w)'

LEMMA DecidedStep ==
  ASSUME TypeOK, Deciding, [Next]_vars
  PROVE  DecidedKept /\ Deciding'
<1> USE NoneAssumption
<1>0. /\ withdrawal \in [Withdrawals -> WithdrawalRow]
      /\ tail \in [Withdrawals -> ReviewTail]
      /\ payouts \in [Withdrawals -> SUBSET {"alipay", "offline"}]
      /\ completing \in [Admins -> Withdrawals \cup {NoWithdrawal}]
  BY DEF TypeOK
<1> USE DEF Deciding, PayoutOnlyApproved, InFlight, DecidedKept, Approved,
            Reviewable, Completable
<1>1. ASSUME NEW u \in Users, NEW w \in Withdrawals, NEW amount \in Amounts,
             NEW method \in Methods, RequestWithdrawal(u, w, amount, method)
      PROVE  DecidedKept /\ Deciding'
  <2>1. withdrawal' = [withdrawal EXCEPT ![w] = withdrawal'[w]]
        /\ withdrawal[w].status = "NONE" /\ withdrawal'[w].status = "PENDING"
        /\ UNCHANGED <<tail, completing, payouts>>
    BY <1>0, <1>1 DEF RequestWithdrawal
  <2> QED
    BY <1>0, <2>1
<1>2. ASSUME NEW w \in Withdrawals, Approve(w) PROVE DecidedKept /\ Deciding'
  <2>1. /\ withdrawal' = [withdrawal EXCEPT ![w].status = "APPROVED"]
        /\ withdrawal[w].status = "PENDING" /\ UNCHANGED <<completing, payouts>>
        /\ \/ tail' = tail
           \/ /\ tail' = [tail EXCEPT ![w] = tail'[w]]
              /\ tail'[w].status = "APPROVED"
    BY <1>0, <1>2 DEF Approve
  <2>2. /\ \A x \in Withdrawals : x # w => withdrawal'[x] = withdrawal[x]
        /\ withdrawal'[w].status = "APPROVED"
    BY <1>0, <2>1 DEF WithdrawalRow
  <2> QED
    BY <1>0, <2>1, <2>2
<1>3. ASSUME NEW w \in Withdrawals, Reject(w) PROVE DecidedKept /\ Deciding'
  <2>1. /\ withdrawal' = [withdrawal EXCEPT ![w].status = "REJECTED"]
        /\ withdrawal[w].status = "PENDING"
        /\ UNCHANGED <<tail, completing, payouts>>
    BY <1>0, <1>3 DEF Reject
  <2>2. \A x \in Withdrawals : x # w => withdrawal'[x] = withdrawal[x]
    BY <1>0, <2>1
  <2>3. ~Approved(w)
    BY <2>1
  <2> QED
    BY <1>0, <2>1, <2>2, <2>3
<1>4. ASSUME NEW w \in Withdrawals,
             TransferSucceeds(w) \/ TransferNotSuccessful(w) \/ CrashReview(w)
      PROVE  DecidedKept /\ Deciding'
  <2>1. UNCHANGED <<withdrawal, completing>>
    BY <1>4 DEF TransferSucceeds, TransferNotSuccessful, CrashReview
  <2>2. /\ tail[w].pc # "idle"
        /\ \A x \in Withdrawals :
             x # w => tail'[x] = tail[x] /\ payouts'[x] = payouts[x]
    BY <1>0, <1>4 DEF TransferSucceeds, TransferNotSuccessful, CrashReview
  <2>3. tail'[w].pc # "idle" => tail'[w].status \in {"APPROVED", "COMPLETED"}
    BY <1>0, <1>4 DEF TransferSucceeds, TransferNotSuccessful, CrashReview,
                      NoTail, ReviewTail
  <2> QED
    BY <2>1, <2>2, <2>3
<1>5. ASSUME NEW w \in Withdrawals, SaveReviewed(w)
      PROVE  DecidedKept /\ Deciding'
  <2>1. /\ tail' = [tail EXCEPT ![w] = NoTail]
        /\ UNCHANGED <<completing, payouts>>
        /\ Approved(w) /\ tail[w].status \in {"APPROVED", "COMPLETED"}
    BY <1>5 DEF SaveReviewed
  <2>2. /\ \A x \in Withdrawals : x # w => withdrawal'[x] = withdrawal[x]
        /\ withdrawal'[w].status = tail[w].status
    BY <1>0, <1>5 DEF SaveReviewed, WithdrawalRow
  <2> QED
    BY <1>0, <2>1, <2>2 DEF NoTail
<1>6. ASSUME NEW a \in Admins, NEW w \in Withdrawals, CompleteRead(a, w)
      PROVE  DecidedKept /\ Deciding'
  BY <1>0, <1>6 DEF CompleteRead
<1>7. ASSUME NEW a \in Admins, CompleteSave(a) PROVE DecidedKept /\ Deciding'
  <2> DEFINE w == completing[a]
  <2>1. /\ w \in Withdrawals /\ Approved(w)
        /\ completing' = [completing EXCEPT ![a] = NoWithdrawal]
        /\ UNCHANGED <<tail, payouts>>
    BY <1>0, <1>7 DEF CompleteSave
  <2>2. /\ \A x \in Withdrawals : x # w => withdrawal'[x] = withdrawal[x]
        /\ withdrawal'[w].status = "COMPLETED"
    BY <1>0, <1>7, <2>1 DEF CompleteSave, WithdrawalRow
  <2> HIDE DEF w
  <2> QED
    BY <1>0, <2>1, <2>2
<1>8. ASSUME UNCHANGED <<withdrawal, tail, completing, payouts>>
      PROVE  DecidedKept /\ Deciding'
  BY <1>8
<1> QED
  BY <1>1, <1>2, <1>3, <1>4, <1>5, <1>6, <1>7, <1>8
     DEF Next, WalletStep, WithdrawalStep, CompleteStep, vars,
         GetOrCreateBalance, AddIncome, PayFromBalance

-----------------------------------------------------------------------------
LEMMA Invariance == Spec => []IInv
<1>1. IInv /\ [Next]_vars => IInv'
  BY TypeStep, ConservationStep, DecidedStep DEF IInv, Deciding
<1> QED
  BY <1>1, InitIInv, PTL DEF Spec

\* The wallet's rows keep their shape and no available balance is negative, for
\* any number of concurrent requests (payFromBalance, requestWithdrawal).
THEOREM TypeCorrect == Spec => []TypeOK
  BY Invariance, PTL DEF IInv

\* Money is conserved in every wallet (addIncome, payFromBalance,
\* requestWithdrawal), none is overdrawn, and money leaves the platform only
\* for approved withdrawals (reviewWithdrawal, completeWithdrawal).
THEOREM MoneyIsAccounted == Spec => []MoneyAccounted
<1>1. IInv => MoneyAccounted
  BY DEF IInv, TypeOK, MoneyAccounted
<1> QED
  BY <1>1, Invariance, PTL

\* A decided review is never undone by a stale save (reviewWithdrawal's tail,
\* completeWithdrawal).
THEOREM DecidedOnce == Spec => ReviewDecidedOnce
<1>1. IInv /\ [Next]_vars => [DecidedKept]_vars
  BY DecidedStep DEF IInv, Deciding
<1> QED
  BY <1>1, Invariance, PTL DEF Spec, ReviewDecidedOnce, DecidedKept

-----------------------------------------------------------------------------
(* Balance implements Wallet: Spendable, Claimed and Gone are what the      *)
(* owner sees, and InFlight is what makes a late save invisible.            *)

\* What the owner sees of one wallet, or of one withdrawal, when one row of the
\* tables changes.
LEMMA SpendableMoves ==
  ASSUME TypeOK, NEW u \in Users, NEW n,
         \A x \in Users : balance'[x].available =
           IF x = u THEN n ELSE balance[x].available
  PROVE  Spendable' = [Spendable EXCEPT ![u] = n]
  BY DEF Spendable

LEMMA SpendableStays ==
  ASSUME \A x \in Users : balance'[x].available = balance[x].available
  PROVE  Spendable' = Spendable
  BY DEF Spendable

LEMMA ClaimedMoves ==
  ASSUME TypeOK, NEW w \in Withdrawals,
         \A x \in Withdrawals : x # w => withdrawal'[x] = withdrawal[x]
  PROVE  Claimed' = [Claimed EXCEPT ![w] = ClaimOf(withdrawal'[w])]
  BY DEF Claimed, ClaimOf

LEMMA InitWallet == Init => Promised!Init
<1> SUFFICES ASSUME Init PROVE Promised!Init
  OBVIOUS
<1>1. Spendable = [u \in Users |-> 0]
  BY DEF Init, Spendable, EmptyBalance
<1>2. Claimed = [w \in Withdrawals |-> Promised!NoClaim]
  BY DEF Init, Claimed, ClaimOf, ClaimState, NoRow, Promised!NoClaim
<1>3. Gone = {}
  BY DEF Init, Gone
<1> QED
  BY <1>1, <1>2, <1>3 DEF Promised!Init

\* Every step of the rows, of a review's tail and of a completion is one step
\* of the promised wallet, or none.
LEMMA WalletRefined ==
  ASSUME IInv, [Next]_vars
  PROVE  [Promised!Next]_(Promised!vars)
<1> USE NoneAssumption, AmountsAssumption
<1>0. /\ balance \in [Users -> BalanceRow]
      /\ withdrawal \in [Withdrawals -> WithdrawalRow]
      /\ tail \in [Withdrawals -> ReviewTail]
      /\ completing \in [Admins -> Withdrawals \cup {NoWithdrawal}]
      /\ payouts \in [Withdrawals -> SUBSET {"alipay", "offline"}]
      /\ TypeOK
  BY DEF IInv, TypeOK
<1>1. ASSUME NEW u \in Users, NEW n \in Amounts, NEW type \in IncomeTypes,
             AddIncome(u, n, type)
      PROVE  Promised!Earn(u, n)
  <2>1. /\ n > 0
        /\ balance' = [balance EXCEPT ![u].available = @ + n,
                                      ![u].totalIncome = @ + n]
        /\ UNCHANGED <<withdrawal, payouts>>
    BY <1>1 DEF AddIncome
  <2>2. \A x \in Users : balance'[x].available =
          IF x = u THEN balance[u].available + n ELSE balance[x].available
    BY <1>0, <2>1 DEF BalanceRow
  <2>3. Spendable' = [Spendable EXCEPT ![u] = balance[u].available + n]
    BY <1>0, <2>2, SpendableMoves
  <2>4. Spendable[u] = balance[u].available
    BY DEF Spendable
  <2>5. UNCHANGED <<Claimed, Gone>>
    BY <2>1 DEF Claimed, ClaimOf, Gone
  <2> QED
    BY <2>1, <2>3, <2>4, <2>5 DEF Promised!Earn
<1>2. ASSUME NEW u \in Users, NEW n \in Amounts, PayFromBalance(u, n)
      PROVE  Promised!Spend(u, n)
  <2>1. /\ n > 0
        /\ balance[u].available >= n
        /\ balance' = [balance EXCEPT ![u].available = @ - n]
        /\ UNCHANGED <<withdrawal, payouts>>
    BY <1>2 DEF PayFromBalance, Covers
  <2>2. \A x \in Users : balance'[x].available =
          IF x = u THEN balance[u].available - n ELSE balance[x].available
    BY <1>0, <2>1 DEF BalanceRow
  <2>3. Spendable' = [Spendable EXCEPT ![u] = balance[u].available - n]
    BY <1>0, <2>2, SpendableMoves
  <2>4. Spendable[u] = balance[u].available /\ Spendable[u] \in Int /\ n \in Int
    BY <1>0 DEF Spendable, BalanceRow
  <2>5. UNCHANGED <<Claimed, Gone>>
    BY <2>1 DEF Claimed, ClaimOf, Gone
  <2> QED
    BY <2>1, <2>3, <2>4, <2>5 DEF Promised!Spend
<1>3. ASSUME NEW u \in Users, NEW w \in Withdrawals, NEW n \in Amounts,
             NEW method \in Methods, RequestWithdrawal(u, w, n, method)
      PROVE  Promised!Ask(w, u, n)
  <2>1. /\ withdrawal[w].status = "NONE"
        /\ n > 0
        /\ balance[u].available >= n
        /\ balance' = [balance EXCEPT ![u].available = @ - n,
                                      ![u].frozen = @ + n]
        /\ withdrawal' = [withdrawal EXCEPT
                            ![w] = [status |-> "PENDING", user |-> u,
                                    amount |-> n, method |-> method,
                                    transactionId |-> "none"]]
        /\ UNCHANGED payouts
    BY <1>3 DEF RequestWithdrawal, Covers
  <2>2. \A x \in Users : balance'[x].available =
          IF x = u THEN balance[u].available - n ELSE balance[x].available
    BY <1>0, <2>1 DEF BalanceRow
  <2>3. Spendable' = [Spendable EXCEPT ![u] = balance[u].available - n]
    BY <1>0, <2>2, SpendableMoves
  <2>4. Spendable[u] = balance[u].available /\ Spendable[u] \in Int /\ n \in Int
    BY <1>0 DEF Spendable, BalanceRow
  <2>5. Claimed' = [Claimed EXCEPT ![w] = ClaimOf(withdrawal'[w])]
    BY <1>0, <2>1, ClaimedMoves
  <2>6. ClaimOf(withdrawal'[w]) = [state |-> "pending", user |-> u, amount |-> n]
    BY <1>0, <2>1 DEF ClaimOf, ClaimState
  <2>7. Claimed[w].state = "none"
    BY <2>1 DEF Claimed, ClaimOf, ClaimState
  <2>8. UNCHANGED Gone
    BY <2>1 DEF Gone
  <2> QED
    BY <2>1, <2>3, <2>4, <2>5, <2>6, <2>7, <2>8 DEF Promised!Ask
<1>4. ASSUME NEW w \in Withdrawals, Approve(w) PROVE Promised!Grant(w)
  <2>1. /\ withdrawal[w].status = "PENDING"
        /\ withdrawal' = [withdrawal EXCEPT ![w].status = "APPROVED"]
        /\ UNCHANGED payouts
    BY <1>4 DEF Approve, Reviewable
  <2>2. \A x \in Users : balance'[x].available = balance[x].available
    BY <1>0, <1>4 DEF Approve, BalanceRow
  <2>3. Claimed' = [Claimed EXCEPT ![w] = ClaimOf(withdrawal'[w])]
    BY <1>0, <2>1, ClaimedMoves
  <2>4. /\ Claimed[w].state = "pending"
        /\ ClaimOf(withdrawal'[w]) = [Claimed[w] EXCEPT !.state = "approved"]
    BY <1>0, <2>1 DEF Claimed, ClaimOf, ClaimState, WithdrawalRow
  <2>5. UNCHANGED <<Spendable, Gone>>
    BY <2>1, <2>2, SpendableStays DEF Gone
  <2> QED
    BY <2>3, <2>4, <2>5 DEF Promised!Grant
<1>5. ASSUME NEW w \in Withdrawals, Reject(w) PROVE Promised!Refuse(w)
  <2> DEFINE u == withdrawal[w].user
             n == withdrawal[w].amount
  <2>1. /\ withdrawal[w].status = "PENDING"
        /\ withdrawal' = [withdrawal EXCEPT ![w].status = "REJECTED"]
        /\ u \in Users /\ n \in Int
        /\ UNCHANGED payouts
        /\ balance' = [balance EXCEPT ![u].frozen = @ - n,
                                      ![u].available = @ + n]
    BY <1>0, <1>5 DEF Reject, Reviewable, TypeOK, WithdrawalRow
  <2>2. Claimed' = [Claimed EXCEPT ![w] = ClaimOf(withdrawal'[w])]
    BY <1>0, <2>1, ClaimedMoves
  <2>3. /\ Claimed[w].state = "pending"
        /\ ClaimOf(withdrawal'[w]) = [Claimed[w] EXCEPT !.state = "rejected"]
        /\ Claimed[w].user = u /\ Claimed[w].amount = n
    BY <1>0, <2>1 DEF Claimed, ClaimOf, ClaimState, WithdrawalRow
  <2> HIDE DEF u, n
  <2>4. \A x \in Users : balance'[x].available =
          IF x = u THEN balance[u].available + n ELSE balance[x].available
    BY <1>0, <2>1 DEF BalanceRow
  <2>5. Spendable' = [Spendable EXCEPT ![u] = balance[u].available + n]
    BY <1>0, <2>1, <2>4, SpendableMoves
  <2>6. Spendable[u] = balance[u].available
    BY <2>1 DEF Spendable
  <2>7. UNCHANGED Gone
    BY <2>1 DEF Gone
  <2> QED
    BY <2>2, <2>3, <2>5, <2>6, <2>7 DEF Promised!Refuse
<1>6. ASSUME NEW w \in Withdrawals, Approved(w), UNCHANGED <<balance, withdrawal>>,
             payouts'[w] # {},
             \A x \in Withdrawals : x # w => payouts'[x] = payouts[x]
      PROVE  Promised!Leave(w)
  <2>1. Gone' = Gone \cup {w}
    BY <1>6 DEF Gone
  <2>2. Claimed[w].state = "approved"
    BY <1>6 DEF Claimed, ClaimOf, ClaimState, Approved
  <2>3. UNCHANGED <<Spendable, Claimed>>
    BY <1>6 DEF Spendable, Claimed, ClaimOf
  <2> QED
    BY <2>1, <2>2, <2>3 DEF Promised!Leave
<1>7. ASSUME UNCHANGED <<Spendable, Claimed, Gone>>
      PROVE  UNCHANGED Promised!vars
  BY <1>7 DEF Promised!vars
<1>8. ASSUME NEW w \in Withdrawals, TransferSucceeds(w) \/ TransferNotSuccessful(w)
      PROVE  Promised!Leave(w) \/ UNCHANGED Promised!vars
  <2>1. /\ UNCHANGED <<balance, withdrawal>>
        /\ tail[w].pc # "idle"
        /\ payouts' = payouts \/ payouts' = [payouts EXCEPT ![w] = @ \cup {"alipay"}]
    BY <1>0, <1>8 DEF TransferSucceeds, TransferNotSuccessful
  <2>2. Approved(w)
    BY <2>1 DEF IInv, PayoutOnlyApproved
  <2>3. CASE payouts' = payouts
    BY <1>7, <2>1, <2>3 DEF Spendable, Claimed, ClaimOf, Gone
  <2>4. CASE payouts' = [payouts EXCEPT ![w] = @ \cup {"alipay"}]
    BY <1>0, <1>6, <2>1, <2>2, <2>4
  <2> QED
    BY <2>1, <2>3, <2>4
<1>9. ASSUME NEW w \in Withdrawals, SaveReviewed(w) PROVE UNCHANGED Promised!vars
  <2>1. /\ tail[w].pc # "idle"
        /\ withdrawal' = [withdrawal EXCEPT ![w].status = tail[w].status,
                            ![w].transactionId = tail[w].transactionId]
        /\ UNCHANGED <<balance, payouts>>
    BY <1>9 DEF SaveReviewed
  <2>2. Approved(w) /\ tail[w].status \in {"APPROVED", "COMPLETED"}
    BY <2>1 DEF IInv, PayoutOnlyApproved, InFlight
  <2>3. \A x \in Withdrawals : ClaimOf(withdrawal'[x]) = ClaimOf(withdrawal[x])
    BY <1>0, <2>1, <2>2 DEF ClaimOf, ClaimState, Approved, WithdrawalRow
  <2> QED
    BY <1>7, <2>1, <2>3 DEF Spendable, Claimed, Gone
<1>10. ASSUME NEW a \in Admins, NEW w \in Withdrawals, CompleteRead(a, w)
       PROVE  Promised!Leave(w)
  BY <1>0, <1>6, <1>10 DEF CompleteRead, Completable, Approved
<1>11. ASSUME NEW a \in Admins, CompleteSave(a) PROVE UNCHANGED Promised!vars
  <2> DEFINE w == completing[a]
  <2>1. /\ w \in Withdrawals /\ Approved(w)
        /\ withdrawal' = [withdrawal EXCEPT ![w].status = "COMPLETED",
                                            ![w].transactionId = "manual"]
        /\ UNCHANGED <<balance, payouts>>
    BY <1>0, <1>11 DEF CompleteSave, IInv, InFlight
  <2> HIDE DEF w
  <2>2. \A x \in Withdrawals : ClaimOf(withdrawal'[x]) = ClaimOf(withdrawal[x])
    BY <1>0, <2>1 DEF ClaimOf, ClaimState, Approved, WithdrawalRow
  <2> QED
    BY <1>7, <2>1, <2>2 DEF Spendable, Claimed, Gone
<1>12. ASSUME UNCHANGED <<balance, withdrawal, payouts>>
       PROVE  UNCHANGED Promised!vars
  BY <1>7, <1>12 DEF Spendable, Claimed, ClaimOf, Gone
<1>13. CASE WalletStep
  <2>1. CASE \E u \in Users : GetOrCreateBalance(u)
    BY <1>12, <2>1 DEF GetOrCreateBalance
  <2> QED
    BY <1>1, <1>2, <1>3, <1>13, <2>1 DEF WalletStep, Promised!Next
<1>14. CASE WithdrawalStep
  <2>1. ASSUME NEW w \in Withdrawals, CrashReview(w)
        PROVE  UNCHANGED Promised!vars
    BY <1>12, <2>1 DEF CrashReview
  <2> QED
    BY <1>4, <1>5, <1>8, <1>9, <1>14, <2>1 DEF WithdrawalStep, Promised!Next
<1>15. CASE CompleteStep
  BY <1>10, <1>11, <1>15 DEF CompleteStep, Promised!Next
<1>16. CASE UNCHANGED vars
  BY <1>12, <1>16 DEF vars
<1> QED
  BY <1>13, <1>14, <1>15, <1>16 DEF Next

\* Whatever requests, reviews, transfers, completions and crashes overlap, the
\* rows of balance.service.ts behave as the wallet its owner is promised.
THEOREM ImplementsTheWallet == Spec => ImplementsWallet
<1>1. IInv /\ [Next]_vars => [Promised!Next]_(Promised!vars)
  BY WalletRefined
<1> QED
  BY <1>1, InitWallet, Invariance, PTL DEF Spec, ImplementsWallet, Promised!Spec

-----------------------------------------------------------------------------
(* Sums over finite sets.                                                   *)

\* The sum of v over S, as the community module folds it.
Total(v, S) == MapThenSumSet(LAMBDA w : v[w], S)

\* The function on the subsets of S that the fold computes.
Pick(s) == CHOOSE x \in s : TRUE
Sums(g, v, S) ==
  g = [s \in SUBSET S |-> IF s = {} THEN 0
                          ELSE v[Pick(s)] + g[s \ {Pick(s)}]]

LEMMA TotalDef ==
  ASSUME NEW v, NEW S
  PROVE  Total(v, S) = (CHOOSE g : Sums(g, v, S))[S]
  BY Zenon DEF Total, MapThenSumSet, MapThenFoldSet, Sums, Pick

\* Induction over the subsets of a finite set: a claim that fails for one of
\* them fails for one all of whose proper subsets satisfy it.
LEMMA MinimalSet ==
  ASSUME NEW S, IsFiniteSet(S), NEW B, B \subseteq SUBSET S, B # {}
  PROVE  \E T \in B : \A U \in B : U \subseteq T => U = T
<1>1. FiniteSubsetsOf(S) = SUBSET S
  BY FS_FiniteSubsetsOfFinite
<1>2. PICK T \in B : \A U \in B : ~(<<U, T>> \in StrictSubsetOrdering(S))
  BY <1>1, FS_StrictSubsetOrderingWellFounded, WFMin, Zenon
<1>3. ASSUME NEW U \in B, U \subseteq T PROVE U = T
  BY <1>2, <1>3 DEF StrictSubsetOrdering
<1> QED
  BY <1>3

\* There is at most one function that the fold computes, ...
LEMMA SumsUnique ==
  ASSUME NEW v, NEW S, IsFiniteSet(S), NEW g, NEW h, Sums(g, v, S), Sums(h, v, S)
  PROVE  g = h
<1> DEFINE B == {s \in SUBSET S : g[s] # h[s]}
<1>1. CASE B = {}
  BY <1>1, Zenon DEF Sums
<1>2. CASE B # {}
  <2>1. PICK T \in B : \A U \in B : U \subseteq T => U = T
    <3>1. B \subseteq SUBSET S
      OBVIOUS
    <3> HIDE DEF B
    <3> QED BY <1>2, <3>1, MinimalSet
  <2>2. T # {}
    BY DEF Sums
  <2>3. Pick(T) \in T
    BY <2>2 DEF Pick
  <2>4. T \ {Pick(T)} \in SUBSET S /\ T \ {Pick(T)} # T
    BY <2>3
  <2>5. g[T \ {Pick(T)}] = h[T \ {Pick(T)}]
    BY <2>1, <2>4
  <2> QED
    BY <2>2, <2>4, <2>5 DEF Sums
<1> QED BY <1>1, <1>2

\* ... and there is one, so that the sum is what its recursion says.
Unfolds(v, T) ==
  Total(v, T) = IF T = {} THEN 0 ELSE v[Pick(T)] + Total(v, T \ {Pick(T)})

LEMMA TotalUnfolds ==
  ASSUME NEW v, NEW S, IsFiniteSet(S)
  PROVE  Unfolds(v, S)
<1> DEFINE B == {s \in SUBSET S : ~Unfolds(v, s)}
<1>1. CASE B # {}
  <2>1. PICK T \in B : \A U \in B : U \subseteq T => U = T
    <3>1. B \subseteq SUBSET S
      OBVIOUS
    <3> HIDE DEF B
    <3> QED BY <1>1, <3>1, MinimalSet
  <2>2. IsFiniteSet(T) /\ T \in SUBSET S /\ ~Unfolds(v, T)
    BY FS_Subset
  <2>3. \A U \in SUBSET T : U # T => Unfolds(v, U)
    BY <2>1, <2>2
  <2> DEFINE x == Pick(T)
             top == IF T = {} THEN 0 ELSE v[x] + Total(v, T \ {x})
             g == [s \in SUBSET T |-> IF s = T THEN top ELSE Total(v, s)]
  <2>4. ASSUME NEW s \in SUBSET T, s # {} PROVE s \ {Pick(s)} \in (SUBSET T) \ {s, T}
    BY <2>4 DEF Pick
  <2>5. ASSUME NEW s \in SUBSET T
        PROVE  g[s] = IF s = {} THEN 0
                      ELSE v[Pick(s)] + g[s \ {Pick(s)}]
    <3>1. s # {} => g[s \ {Pick(s)}] = Total(v, s \ {Pick(s)})
      BY <2>4
    <3>2. CASE s = T
      BY <3>1, <3>2
    <3>3. CASE s # T
      BY <2>3, <3>1, <3>3 DEF Unfolds
    <3> QED BY <3>2, <3>3
  <2>6. Sums(g, v, T)
    <3>1. g = [s \in SUBSET T |-> g[s]]
      BY Zenon
    <3> HIDE DEF g
    <3> QED BY <2>5, <3>1, Zenon DEF Sums
  <2>7. \A h : Sums(h, v, T) => h = g
    BY <2>2, <2>6, SumsUnique
  <2>8. (CHOOSE h : Sums(h, v, T)) = g
    <3> HIDE DEF g
    <3> QED BY <2>6, <2>7
  <2>9. Total(v, T) = g[T]
    BY <2>8, TotalDef
  <2>10. g[T] = top
    OBVIOUS
  <2> QED BY <2>2, <2>9, <2>10 DEF Unfolds
<1>2. CASE B = {}
  BY <1>2
<1> QED BY <1>1, <1>2

LEMMA TotalType ==
  ASSUME NEW v, NEW S, IsFiniteSet(S), \A w \in S : v[w] \in Nat
  PROVE  Total(v, S) \in Nat
<1> DEFINE B == {s \in SUBSET S : Total(v, s) \notin Nat}
<1>1. CASE B # {}
  <2>1. PICK T \in B : \A U \in B : U \subseteq T => U = T
    <3>1. B \subseteq SUBSET S
      OBVIOUS
    <3> HIDE DEF B
    <3> QED BY <1>1, <3>1, MinimalSet
  <2>2. Unfolds(v, T)
    BY FS_Subset, TotalUnfolds
  <2>3. T # {}
    BY <2>2 DEF Unfolds
  <2>4. Pick(T) \in T
    BY <2>3 DEF Pick
  <2>5. Total(v, T \ {Pick(T)}) \in Nat
    BY <2>1, <2>4
  <2> QED
    BY <2>2, <2>3, <2>4, <2>5 DEF Unfolds
<1>2. CASE B = {}
  BY <1>2
<1> QED BY <1>1, <1>2

\* The order in which the elements are taken does not matter.
LEMMA TotalRemove ==
  ASSUME NEW v, NEW S, IsFiniteSet(S), NEW y \in S,
         \A w \in S : v[w] \in Nat
  PROVE  Total(v, S) = v[y] + Total(v, S \ {y})
<1> DEFINE Splits(T) ==
             \A z \in T : Total(v, T) = v[z] + Total(v, T \ {z})
           B == {s \in SUBSET S : ~Splits(s)}
<1>1. CASE B # {}
  <2>1. PICK T \in B : \A U \in B : U \subseteq T => U = T
    <3>1. B \subseteq SUBSET S
      OBVIOUS
    <3> HIDE DEF B
    <3> QED BY <1>1, <3>1, MinimalSet
  <2>2. PICK z \in T : Total(v, T) # v[z] + Total(v, T \ {z})
    OBVIOUS
  <2> DEFINE x == Pick(T)
  <2>3. x \in T
    BY DEF Pick
  <2>4. Total(v, T) = v[x] + Total(v, T \ {x})
    BY FS_Subset, TotalUnfolds DEF Unfolds
  <2>5. x # z
    BY <2>2, <2>4
  <2>6. Splits(T \ {x}) /\ Splits(T \ {z})
    BY <2>1, <2>3
  <2> HIDE DEF x
  <2>7. Total(v, T \ {x}) = v[z] + Total(v, (T \ {x}) \ {z})
    BY <2>5, <2>6
  <2>8. Total(v, T \ {z}) = v[x] + Total(v, (T \ {z}) \ {x})
    BY <2>3, <2>5, <2>6
  <2>9. (T \ {x}) \ {z} = (T \ {z}) \ {x}
    OBVIOUS
  <2> DEFINE rest == Total(v, (T \ {z}) \ {x})
  <2>10. rest \in Nat
    <3>1. IsFiniteSet((T \ {z}) \ {x}) /\ (T \ {z}) \ {x} \subseteq S
      BY FS_Subset
    <3> QED BY <3>1, TotalType
  <2>11. v[x] \in Nat /\ v[z] \in Nat
    BY <2>3
  <2>12. Total(v, (T \ {x}) \ {z}) = rest
    BY <2>9, Zenon
  <2>13. Total(v, T) = v[x] + (v[z] + rest)
    BY <2>4, <2>7, <2>12
  <2>14. Total(v, T \ {z}) = v[x] + rest
    BY <2>8
  <2> HIDE DEF rest
  <2> QED
    BY <2>2, <2>10, <2>11, <2>13, <2>14
<1>2. CASE B = {}
  BY <1>2
<1> QED BY <1>1, <1>2

LEMMA TotalSame ==
  ASSUME NEW v, NEW w, NEW S, IsFiniteSet(S), \A x \in S : v[x] = w[x]
  PROVE  Total(v, S) = Total(w, S)
<1> DEFINE B == {s \in SUBSET S : Total(v, s) # Total(w, s)}
<1>1. CASE B # {}
  <2>1. PICK T \in B : \A U \in B : U \subseteq T => U = T
    <3>1. B \subseteq SUBSET S
      OBVIOUS
    <3> HIDE DEF B
    <3> QED BY <1>1, <3>1, MinimalSet
  <2>2. Unfolds(v, T) /\ Unfolds(w, T)
    BY FS_Subset, TotalUnfolds
  <2>3. T # {}
    BY <2>2 DEF Unfolds
  <2>4. Pick(T) \in T
    BY <2>3 DEF Pick
  <2>5. Total(v, T \ {Pick(T)}) = Total(w, T \ {Pick(T)})
    BY <2>1, <2>4
  <2> QED
    BY <2>2, <2>3, <2>4, <2>5 DEF Unfolds
<1>2. CASE B = {}
  BY <1>2
<1> QED BY <1>1, <1>2

\* The sums of AmountIn are over a column of the rows.
Amount(table, W) == [w \in W |-> table[w].amount]
LEMMA AmountTotal ==
  ASSUME NEW table, NEW W, NEW S \in SUBSET W
  PROVE  MapThenSumSet(LAMBDA w : table[w].amount, S) = Total(Amount(table, W), S)
<1> DEFINE Same(g) == g = [s \in SUBSET S |-> IF s = {} THEN 0
                             ELSE table[Pick(s)].amount + g[s \ {Pick(s)}]]
<1>1. MapThenSumSet(LAMBDA w : table[w].amount, S) = (CHOOSE g : Same(g))[S]
  BY Zenon DEF MapThenSumSet, MapThenFoldSet, Pick
<1>2. ASSUME NEW s \in SUBSET S, s # {}
      PROVE  Amount(table, W)[Pick(s)] = table[Pick(s)].amount
  <2>1. Pick(s) \in W
    BY <1>2 DEF Pick
  <2> QED BY <2>1 DEF Amount
<1>3. ASSUME NEW g PROVE Same(g) <=> Sums(g, Amount(table, W), S)
  <2>1. \A s \in SUBSET S :
          (IF s = {} THEN 0 ELSE table[Pick(s)].amount + g[s \ {Pick(s)}])
          = (IF s = {} THEN 0 ELSE Amount(table, W)[Pick(s)] + g[s \ {Pick(s)}])
    BY <1>2
  <2>2. [s \in SUBSET S |-> IF s = {} THEN 0 ELSE table[Pick(s)].amount + g[s \ {Pick(s)}]]
        = [s \in SUBSET S |-> IF s = {} THEN 0 ELSE Amount(table, W)[Pick(s)] + g[s \ {Pick(s)}]]
    BY <2>1
  <2> QED BY <2>2, Zenon DEF Sums
<1>4. (CHOOSE g : Same(g)) = (CHOOSE g : Sums(g, Amount(table, W), S))
  <2> HIDE DEF Same
  <2> QED BY <1>3
<1> QED
  BY <1>1, <1>4, TotalDef

-----------------------------------------------------------------------------
(* What is frozen and what was paid out are sums over the withdrawals.      *)

DecidedStatuses == {"APPROVED", "COMPLETED"}
\* The rows that exist; the ids of a user's rows with one of the statuses; what
\* they hold together, and what a single row adds to that.
Filed(table) == {w \in Withdrawals : table[w].status # "NONE"}
Ids(table, u, statuses) ==
    {w \in Withdrawals : table[w].user = u /\ table[w].status \in statuses}
Held(table, u, statuses) ==
    Total(Amount(table, Withdrawals), Ids(table, u, statuses))
Part(row, u, statuses) ==
    IF row.user = u /\ row.status \in statuses THEN row.amount ELSE 0

\* FrozenBacksPending, of sums that an induction can be made about, over rows
\* of which only finitely many are filed.
Backing ==
    /\ IsFiniteSet(Filed(withdrawal))
    /\ \A u \in Users :
         /\ balance[u].frozen = Held(withdrawal, u, {"PENDING"})
         /\ balance[u].totalWithdrawal = Held(withdrawal, u, DecidedStatuses)

LEMMA BackingBacks == Backing => FrozenBacksPending
<1>1. ASSUME NEW u, NEW statuses
      PROVE  AmountIn(u, statuses) = Held(withdrawal, u, statuses)
  <2>1. Ids(withdrawal, u, statuses) \in SUBSET Withdrawals
    BY DEF Ids
  <2> QED
    BY <2>1, AmountTotal, Zenon DEF AmountIn, Ids, Held
<1> QED
  BY <1>1, Zenon DEF Backing, FrozenBacksPending, DecidedStatuses

\* Saving one row takes its part out of a sum and puts the new one in.
LEMMA SaveMoves ==
  ASSUME NEW was \in [Withdrawals -> WithdrawalRow],
         NEW is \in [Withdrawals -> WithdrawalRow],
         NEW w \in Withdrawals, \A x \in Withdrawals \ {w} : is[x] = was[x],
         IsFiniteSet(Filed(was)),
         NEW u, NEW statuses, "NONE" \notin statuses
  PROVE  /\ IsFiniteSet(Filed(is))
         /\ Held(was, u, statuses) \in Nat /\ Held(is, u, statuses) \in Nat
         /\ Held(is, u, statuses) + Part(was[w], u, statuses)
              = Held(was, u, statuses) + Part(is[w], u, statuses)
<1>1. IsFiniteSet(Filed(is))
  <2>1. IsFiniteSet(Filed(was) \cup {w})
    BY FS_AddElement
  <2>2. Filed(is) \in SUBSET (Filed(was) \cup {w})
    BY DEF Filed
  <2> QED
    BY <2>1, <2>2, FS_Subset
<1> DEFINE rest == Ids(was, u, statuses) \ {w}
           a == Amount(was, Withdrawals)
           b == Amount(is, Withdrawals)
<1>2. IsFiniteSet(Ids(was, u, statuses)) /\ IsFiniteSet(Ids(is, u, statuses))
  <2>1. /\ Ids(was, u, statuses) \in SUBSET Filed(was)
        /\ Ids(is, u, statuses) \in SUBSET Filed(is)
    BY DEF Ids, Filed
  <2> QED
    BY <1>1, <2>1, FS_Subset
<1>3. Ids(is, u, statuses) \ {w} = rest
  BY DEF Ids
<1>4. \A x \in Withdrawals : a[x] \in Nat /\ b[x] \in Nat
  BY DEF Amount, WithdrawalRow
<1>5. \A x \in rest : a[x] = b[x]
  BY DEF Ids, Amount
<1>6. rest \subseteq Withdrawals /\ IsFiniteSet(rest)
  BY <1>2, FS_RemoveElement DEF Ids
<1> HIDE DEF rest, a, b
<1>7. Total(a, rest) = Total(b, rest) /\ Total(a, rest) \in Nat
  BY <1>4, <1>5, <1>6, TotalSame, TotalType
<1>8. Held(was, u, statuses) = Part(was[w], u, statuses) + Total(a, rest)
  <2>1. CASE w \in Ids(was, u, statuses)
    <3>1. Part(was[w], u, statuses) = a[w]
      BY <2>1 DEF Part, Ids, a, Amount
    <3>2. \A x \in Ids(was, u, statuses) : a[x] \in Nat
      BY <1>4 DEF Ids
    <3> QED
      BY <1>2, <2>1, <3>1, <3>2, TotalRemove DEF Held, rest, a
  <2>2. CASE w \notin Ids(was, u, statuses)
    <3>1. Part(was[w], u, statuses) = 0 /\ Ids(was, u, statuses) = rest
      BY <2>2 DEF Part, Ids, rest
    <3> QED
      BY <1>7, <3>1 DEF Held, a
  <2> QED
    BY <2>1, <2>2
<1>9. Held(is, u, statuses) = Part(is[w], u, statuses) + Total(b, rest)
  <2>1. CASE w \in Ids(is, u, statuses)
    <3>1. Part(is[w], u, statuses) = b[w]
      BY <2>1 DEF Part, Ids, b, Amount
    <3>2. \A x \in Ids(is, u, statuses) : b[x] \in Nat
      BY <1>4 DEF Ids
    <3>3. Total(b, Ids(is, u, statuses))
            = b[w] + Total(b, Ids(is, u, statuses) \ {w})
      BY <1>2, <2>1, <3>2, TotalRemove
    <3> QED
      BY <1>3, <3>1, <3>3, Zenon DEF Held, b
  <2>2. CASE w \notin Ids(is, u, statuses)
    <3>1. Part(is[w], u, statuses) = 0 /\ Ids(is, u, statuses) = rest
      BY <1>3, <2>2 DEF Part, Ids
    <3> QED
      BY <1>7, <3>1 DEF Held, b
  <2> QED
    BY <2>1, <2>2
<1>10. Part(was[w], u, statuses) \in Nat /\ Part(is[w], u, statuses) \in Nat
  BY DEF Part, WithdrawalRow
<1> QED
  BY <1>1, <1>7, <1>8, <1>9, <1>10

\* A step that saves one row and moves the amounts along keeps Backing.
LEMMA BackedSave ==
  ASSUME TypeOK, TypeOK', Backing, NEW w \in Withdrawals,
         \A x \in Withdrawals \ {w} : withdrawal'[x] = withdrawal[x],
         \A u \in Users :
           /\ balance'[u].frozen + Part(withdrawal[w], u, {"PENDING"})
                = balance[u].frozen + Part(withdrawal'[w], u, {"PENDING"})
           /\ balance'[u].totalWithdrawal + Part(withdrawal[w], u, DecidedStatuses)
                = balance[u].totalWithdrawal + Part(withdrawal'[w], u, DecidedStatuses)
  PROVE  Backing'
<1>1. /\ withdrawal \in [Withdrawals -> WithdrawalRow]
      /\ withdrawal' \in [Withdrawals -> WithdrawalRow]
      /\ IsFiniteSet(Filed(withdrawal))
  BY DEF TypeOK, Backing
<1>2. IsFiniteSet(Filed(withdrawal'))
  BY <1>1, SaveMoves, "NONE" \notin {"PENDING"}
<1>3. ASSUME NEW u \in Users, NEW statuses \in {{"PENDING"}, DecidedStatuses}
      PROVE  /\ Held(withdrawal, u, statuses) \in Nat
             /\ Held(withdrawal', u, statuses) \in Nat
             /\ Part(withdrawal[w], u, statuses) \in Nat
             /\ Part(withdrawal'[w], u, statuses) \in Nat
             /\ Held(withdrawal', u, statuses) + Part(withdrawal[w], u, statuses)
                  = Held(withdrawal, u, statuses)
                    + Part(withdrawal'[w], u, statuses)
  <2>1. "NONE" \notin statuses
    BY DEF DecidedStatuses
  <2>2. /\ Part(withdrawal[w], u, statuses) \in Nat
        /\ Part(withdrawal'[w], u, statuses) \in Nat
    BY <1>1 DEF Part, WithdrawalRow
  <2> QED
    BY <1>1, <2>1, <2>2, SaveMoves
<1>4. ASSUME NEW u \in Users
      PROVE  /\ balance'[u].frozen = Held(withdrawal', u, {"PENDING"})
             /\ balance'[u].totalWithdrawal = Held(withdrawal', u, DecidedStatuses)
  <2>1. /\ balance[u].frozen = Held(withdrawal, u, {"PENDING"})
        /\ balance[u].totalWithdrawal = Held(withdrawal, u, DecidedStatuses)
    BY DEF Backing
  <2>2. /\ balance'[u].frozen \in Int /\ balance'[u].totalWithdrawal \in Int
    BY DEF TypeOK, BalanceRow
  <2>3. balance'[u].frozen = Held(withdrawal', u, {"PENDING"})
    <3>1. {"PENDING"} \in {{"PENDING"}, DecidedStatuses}
      OBVIOUS
    <3> DEFINE h == Held(withdrawal, u, {"PENDING"})
               k == Held(withdrawal', u, {"PENDING"})
               p == Part(withdrawal[w], u, {"PENDING"})
               q == Part(withdrawal'[w], u, {"PENDING"})
    <3>2. h \in Nat /\ k \in Nat /\ p \in Nat /\ q \in Nat /\ k + p = h + q
      BY <1>3, <3>1
    <3>3. balance'[u].frozen + p = h + q
      BY <2>1
    <3> HIDE DEF h, k, p, q
    <3>4. balance'[u].frozen = k
      BY <2>2, <3>2, <3>3
    <3> QED
      BY <3>4 DEF k
  <2>4. balance'[u].totalWithdrawal = Held(withdrawal', u, DecidedStatuses)
    <3>1. DecidedStatuses \in {{"PENDING"}, DecidedStatuses}
      OBVIOUS
    <3> DEFINE h == Held(withdrawal, u, DecidedStatuses)
               k == Held(withdrawal', u, DecidedStatuses)
               p == Part(withdrawal[w], u, DecidedStatuses)
               q == Part(withdrawal'[w], u, DecidedStatuses)
    <3>2. h \in Nat /\ k \in Nat /\ p \in Nat /\ q \in Nat /\ k + p = h + q
      BY <1>3, <3>1
    <3>3. balance'[u].totalWithdrawal + p = h + q
      BY <2>1
    <3> HIDE DEF h, k, p, q
    <3>4. balance'[u].totalWithdrawal = k
      BY <2>2, <3>2, <3>3
    <3> QED
      BY <3>4 DEF k
  <2> QED
    BY <2>3, <2>4
<1> QED
  BY <1>2, <1>4 DEF Backing, Held, Ids, Filed, DecidedStatuses

LEMMA BackingStep ==
  IInv /\ IInv' /\ Backing /\ [Next]_vars => Backing'
<1> SUFFICES ASSUME IInv, IInv', Backing, [Next]_vars PROVE Backing'
  OBVIOUS
<1>0. /\ TypeOK /\ TypeOK'
      /\ balance \in [Users -> BalanceRow]
      /\ withdrawal \in [Withdrawals -> WithdrawalRow]
      /\ withdrawal' \in [Withdrawals -> WithdrawalRow]
  BY DEF IInv, TypeOK
<1>1. ASSUME UNCHANGED withdrawal,
             \A u \in Users :
               /\ balance'[u].frozen = balance[u].frozen
               /\ balance'[u].totalWithdrawal = balance[u].totalWithdrawal
      PROVE  Backing'
  BY <1>1, Zenon DEF Backing, Held, Ids, Filed, Amount
<1>2. ASSUME NEW w \in Withdrawals, UNCHANGED balance,
             Approved(w), withdrawal'[w].status \in DecidedStatuses,
             withdrawal' = [withdrawal EXCEPT
                              ![w].status = withdrawal'[w].status,
                              ![w].transactionId = withdrawal'[w].transactionId]
      PROVE  Backing'
  <2>1. \A x \in Withdrawals \ {w} : withdrawal'[x] = withdrawal[x]
    BY <1>0, <1>2
  <2>2. /\ withdrawal'[w].user = withdrawal[w].user
        /\ withdrawal'[w].amount = withdrawal[w].amount
    BY <1>0, <1>2 DEF WithdrawalRow
  <2>3. \A u \in Users :
          /\ Part(withdrawal[w], u, {"PENDING"}) = 0
          /\ Part(withdrawal'[w], u, {"PENDING"}) = 0
          /\ Part(withdrawal[w], u, DecidedStatuses) = Part(withdrawal'[w], u, DecidedStatuses)
    BY <1>2, <2>2 DEF Part, DecidedStatuses, Approved
  <2> QED
    BY <1>0, <1>2, <2>1, <2>3, BackedSave
<1>3. ASSUME NEW u \in Users, NEW w \in Withdrawals, NEW amount \in Amounts,
             NEW method \in Methods, RequestWithdrawal(u, w, amount, method)
      PROVE  Backing'
  <2>1. amount \in Int
    BY AmountsAssumption
  <2>2. /\ \A x \in Withdrawals \ {w} : withdrawal'[x] = withdrawal[x]
        /\ withdrawal[w].status = "NONE"
        /\ withdrawal'[w].status = "PENDING"
        /\ withdrawal'[w].user = u /\ withdrawal'[w].amount = amount
    BY <1>0, <1>3 DEF RequestWithdrawal
  <2>3. \A x \in Users :
          /\ balance'[x].frozen =
               balance[x].frozen + (IF x = u THEN amount ELSE 0)
          /\ balance'[x].totalWithdrawal = balance[x].totalWithdrawal
    BY <1>0, <1>3, <2>1 DEF RequestWithdrawal, BalanceRow
  <2>4. \A x \in Users :
          /\ Part(withdrawal[w], x, {"PENDING"}) = 0
          /\ Part(withdrawal[w], x, DecidedStatuses) = 0
          /\ Part(withdrawal'[w], x, {"PENDING"}) = IF x = u THEN amount ELSE 0
          /\ Part(withdrawal'[w], x, DecidedStatuses) = 0
    BY <2>2 DEF Part, DecidedStatuses
  <2>5. \A x \in Users : balance'[x].frozen \in Int /\ balance[x].frozen \in Int
                         /\ balance[x].totalWithdrawal \in Int
    BY <1>0 DEF TypeOK, BalanceRow
  <2> QED
    BY <1>0, <2>1, <2>2, <2>3, <2>4, <2>5, BackedSave
<1>4. ASSUME NEW w \in Withdrawals, Approve(w) \/ Reject(w) PROVE Backing'
  <2> DEFINE n == withdrawal[w].amount
             owner == withdrawal[w].user
  <2>1. /\ \A x \in Withdrawals \ {w} : withdrawal'[x] = withdrawal[x]
        /\ withdrawal[w].status = "PENDING"
        /\ withdrawal'[w].status = IF Approve(w) THEN "APPROVED" ELSE "REJECTED"
        /\ withdrawal'[w].user = owner /\ withdrawal'[w].amount = n
    BY <1>0, <1>4 DEF Approve, Reject, Reviewable, WithdrawalRow
  <2>2. n \in Nat
    BY <1>0 DEF WithdrawalRow
  <2>3. \A x \in Users :
          /\ balance'[x].frozen = balance[x].frozen - (IF x = owner THEN n ELSE 0)
          /\ balance'[x].totalWithdrawal = balance[x].totalWithdrawal
               + (IF x = owner /\ Approve(w) THEN n ELSE 0)
    <3>1. CASE Approve(w)
      <4>1. balance' = [balance EXCEPT ![owner].frozen = @ - n,
                                       ![owner].totalWithdrawal = @ + n]
        BY <3>1 DEF Approve
      <4> HIDE DEF n, owner
      <4> QED
        BY <1>0, <2>2, <3>1, <4>1 DEF BalanceRow
    <3>2. CASE ~Approve(w)
      <4>1. balance' = [balance EXCEPT ![owner].frozen = @ - n,
                                       ![owner].available = @ + n]
        BY <1>4, <3>2 DEF Reject
      <4> HIDE DEF n, owner
      <4> QED
        BY <1>0, <2>2, <3>2, <4>1 DEF BalanceRow
    <3> QED
      BY <3>1, <3>2
  <2>4. \A x \in Users :
          /\ Part(withdrawal[w], x, {"PENDING"}) = IF x = owner THEN n ELSE 0
          /\ Part(withdrawal[w], x, DecidedStatuses) = 0
          /\ Part(withdrawal'[w], x, {"PENDING"}) = 0
          /\ Part(withdrawal'[w], x, DecidedStatuses) =
               IF x = owner /\ Approve(w) THEN n ELSE 0
    BY <2>1 DEF Part, DecidedStatuses
  <2>5. \A x \in Users : balance[x].frozen \in Int
                         /\ balance[x].totalWithdrawal \in Int
    BY <1>0 DEF TypeOK, BalanceRow
  <2> HIDE DEF n, owner
  <2>6. \A x \in Users :
           /\ balance'[x].frozen + Part(withdrawal[w], x, {"PENDING"})
                = balance[x].frozen + Part(withdrawal'[w], x, {"PENDING"})
           /\ balance'[x].totalWithdrawal + Part(withdrawal[w], x, DecidedStatuses)
                = balance[x].totalWithdrawal + Part(withdrawal'[w], x, DecidedStatuses)
    BY <2>2, <2>3, <2>4, <2>5
  <2> QED
    BY <1>0, <2>1, <2>6, BackedSave
<1>5. ASSUME NEW w \in Withdrawals, SaveReviewed(w) PROVE Backing'
  <2>1. Approved(w) /\ tail[w].status \in DecidedStatuses
    BY <1>5 DEF SaveReviewed, IInv, PayoutOnlyApproved, InFlight, DecidedStatuses
  <2>2. /\ UNCHANGED balance /\ withdrawal'[w].status = tail[w].status
        /\ withdrawal'[w].transactionId = tail[w].transactionId
        /\ withdrawal' = [withdrawal EXCEPT
                            ![w].status = tail[w].status,
                            ![w].transactionId = tail[w].transactionId]
    BY <1>0, <1>5 DEF SaveReviewed, WithdrawalRow
  <2> QED
    BY <1>2, <2>1, <2>2
<1>6. ASSUME NEW a \in Admins, CompleteSave(a) PROVE Backing'
  <2> DEFINE w == completing[a]
  <2>1. w \in Withdrawals /\ Approved(w)
    BY <1>0, <1>6 DEF CompleteSave, IInv, InFlight, TypeOK
  <2>2. /\ UNCHANGED balance
        /\ withdrawal' = [withdrawal EXCEPT ![w].status = "COMPLETED",
                                            ![w].transactionId = "manual"]
    BY <1>6 DEF CompleteSave
  <2> HIDE DEF w
  <2>3. /\ withdrawal'[w].status = "COMPLETED"
        /\ withdrawal'[w].transactionId = "manual"
    BY <1>0, <2>1, <2>2 DEF WithdrawalRow
  <2> QED
    BY <1>2, <2>1, <2>2, <2>3 DEF DecidedStatuses
<1>7. ASSUME NEW u \in Users, NEW amount \in Amounts,
             \/ PayFromBalance(u, amount)
             \/ \E type \in IncomeTypes : AddIncome(u, amount, type)
      PROVE  Backing'
  <2>1. amount \in Int
    BY AmountsAssumption
  <2>2. \A x \in Users :
               /\ balance'[x].frozen = balance[x].frozen
               /\ balance'[x].totalWithdrawal = balance[x].totalWithdrawal
    BY <1>0, <1>7, <2>1 DEF PayFromBalance, AddIncome, BalanceRow
  <2> QED
    BY <1>1, <1>7, <2>2 DEF PayFromBalance, AddIncome
<1>8. CASE UNCHANGED <<withdrawal, balance>>
  BY <1>1, <1>8
<1> QED
  BY <1>3, <1>4, <1>5, <1>6, <1>7, <1>8
  DEF Next, WalletStep, WithdrawalStep, CompleteStep, vars,
      GetOrCreateBalance, TransferSucceeds, TransferNotSuccessful,
      CrashReview, CompleteRead

LEMMA InitBacking == Init => Backing
<1> SUFFICES ASSUME Init PROVE Backing
  OBVIOUS
<1>1. Filed(withdrawal) = {}
  BY DEF Init, Filed, NoRow
<1>2. ASSUME NEW u \in Users, NEW statuses
      PROVE  Held(withdrawal, u, statuses) = 0
  <2>1. Ids(withdrawal, u, statuses) = {}
    BY NoneAssumption DEF Init, Ids, NoRow
  <2> QED
    BY <2>1, FS_EmptySet, TotalUnfolds DEF Unfolds, Held
<1> QED
  BY <1>1, <1>2, FS_EmptySet DEF Backing, Init, EmptyBalance

\* The amount frozen in a wallet is what the undecided withdrawals of its user
\* hold, and the total withdrawn what the approved ones hold, for any number of
\* users and withdrawals, whatever reviews, transfers, completions and crashes
\* overlap (requestWithdrawal, reviewWithdrawal, completeWithdrawal).
THEOREM FrozenIsPending == Spec => []FrozenBacksPending
  BY InitBacking, BackingStep, BackingBacks, Invariance, PTL DEF Spec

-----------------------------------------------------------------------------
(* The recharge orders of the RCH path, for any number of rows, notify ids  *)
(* and requests.                                                            *)
(* First that the balance only grows by money Alipay received; then that,   *)
(* until a row outlives its 15 minutes, it grows once per recharge: the     *)
(* row lock of settleRecharge lets one request through, and the only FAILED *)
(* saves left are those of trades that Alipay has closed for good.          *)

\* A request that settles, credits or acknowledges does so for a paid trade.
Paying ==
    \A k \in RechargeRequests :
      /\ rechargeReq[k].pc \in {"settle", "credit", "log"} =>
           rechargeReq[k].row \in Rows /\ trade[rechargeReq[k].row] = "PAID"
      /\ rechargeReq[k].pc \in {"refresh", "expire", "expireThenCreate"} =>
           rechargeReq[k].row \in Rows

BInv == RechargeTypeOK /\ CreditsBacked /\ Paying

LEMMA InitBInv == RechargeInit => BInv
  BY RowsAssumption, CreditsAssumption DEF RechargeInit, BInv, RechargeTypeOK, CreditsBacked, Paying, RechargeStatuses,
     Trades, LogStates, RechargeSteps, Request, IdleRequest, NoRecharge

LEMMA RequestShape ==
  /\ IdleRequest \in Request
  /\ \A q \in Request, pc \in RechargeSteps : [q EXCEPT !.pc = pc] \in Request
  /\ \A pc \in RechargeSteps, r \in Rows \cup {NoRecharge}, n \in NotifyIds \cup {NoNotify} :
       [pc |-> pc, row |-> r, notify |-> n] \in Request
  BY DEF Request, IdleRequest, RechargeSteps

LEMMA RechargeGotoShape ==
  ASSUME RechargeTypeOK, NEW k \in RechargeRequests, NEW pc \in RechargeSteps, GotoStep(k, pc)
  PROVE  /\ rechargeReq' \in [RechargeRequests -> Request]
         /\ rechargeReq'[k].pc = pc /\ rechargeReq'[k].row = rechargeReq[k].row
         /\ \A j \in RechargeRequests : j # k => rechargeReq'[j] = rechargeReq[j]
<1>1. rechargeReq \in [RechargeRequests -> Request] /\ rechargeReq[k] \in Request
  BY DEF RechargeTypeOK
<1>2. [rechargeReq[k] EXCEPT !.pc = pc] \in Request
  BY <1>1, RequestShape
<1>3. rechargeReq' = [rechargeReq EXCEPT ![k] = [rechargeReq[k] EXCEPT !.pc = pc]]
  BY DEF GotoStep
<1>4. /\ [rechargeReq[k] EXCEPT !.pc = pc].pc = pc
      /\ [rechargeReq[k] EXCEPT !.pc = pc].row = rechargeReq[k].row
  BY <1>1 DEF Request
<1> QED
  BY <1>1, <1>2, <1>3, <1>4

LEMMA RechargeFinishShape ==
  ASSUME RechargeTypeOK, NEW k \in RechargeRequests, Return(k)
  PROVE  /\ rechargeReq' \in [RechargeRequests -> Request]
         /\ rechargeReq'[k].pc = "idle"
         /\ \A j \in RechargeRequests : j # k => rechargeReq'[j] = rechargeReq[j]
<1>1. rechargeReq \in [RechargeRequests -> Request]
  BY DEF RechargeTypeOK
<1> QED
  BY <1>1, RequestShape DEF Return, IdleRequest

LEMMA RechargeStartShape ==
  ASSUME RechargeTypeOK, NEW k \in RechargeRequests, NEW pc \in RechargeSteps,
         NEW r \in Rows \cup {NoRecharge}, NEW n \in NotifyIds \cup {NoNotify},
         Start(k, pc, r, n)
  PROVE  /\ rechargeReq' \in [RechargeRequests -> Request]
         /\ rechargeReq'[k].pc = pc /\ rechargeReq'[k].row = r
         /\ \A j \in RechargeRequests : j # k => rechargeReq'[j] = rechargeReq[j]
<1>1. rechargeReq \in [RechargeRequests -> Request]
  BY DEF RechargeTypeOK
<1> QED
  BY <1>1, RequestShape DEF Start

-----------------------------------------------------------------------------
(* What one step of one request may do.  The invariants follow from this    *)
(* summary alone.                                                           *)

Others(k) == \A j \in RechargeRequests : j # k => rechargeReq'[j] = rechargeReq[j]

StepEffect(k) ==
    LET q == rechargeReq[k]
        new == rechargeReq'[k].pc IN
    /\ Others(k)
    /\ UNCHANGED <<old, trade>>
    /\ \* lookups, queries and ends of requests
       \/ /\ UNCHANGED <<status, credits>>
          /\ \/ new \in {"idle", "create"}
             \/ new = "refresh" /\ rechargeReq'[k].row \in Rows
             \/ /\ new \in {"expire", "expireThenCreate"}
                /\ rechargeReq'[k].row \in Rows
                /\ rechargeReq'[k].row \in old \/ trade[rechargeReq'[k].row] = "CLOSED"
             \/ /\ new = "settle"
                /\ rechargeReq'[k].row \in Rows /\ trade[rechargeReq'[k].row] = "PAID"
             \/ /\ new = "log" /\ rechargeReq'[k].row = q.row
                /\ q.pc = "settle" /\ status[q.row] = "PAID"
       \* createRecharge inserts a row
       \/ /\ new = "idle" /\ UNCHANGED credits
          /\ \E r \in Rows : /\ status[r] = "NONE"
                             /\ status' = [status EXCEPT ![r] = "INIT"]
       \* a FAILED save
       \/ /\ q.pc \in {"expire", "expireThenCreate"}
          /\ status' = [status EXCEPT ![q.row] = "FAILED"]
          /\ new \in {"idle", "create"} /\ UNCHANGED credits
       \* the settlement that goes on to the credit
       \/ /\ q.pc = "settle" /\ status[q.row] # "PAID"
          /\ status' = [status EXCEPT ![q.row] = "PAID"]
          /\ new = "credit" /\ rechargeReq'[k].row = q.row /\ UNCHANGED credits
       \* the credit
       \/ /\ q.pc = "credit"
          /\ credits' = [credits EXCEPT ![q.row] = @ + 1]
          /\ UNCHANGED status
          /\ new = "idle" \/ (new = "log" /\ rechargeReq'[k].row = q.row)

LEMMA AfterSettlingShape ==
  ASSUME RechargeTypeOK, NEW k \in RechargeRequests, AfterSettling(k)
  PROVE  /\ rechargeReq' \in [RechargeRequests -> Request]
         /\ Others(k)
         /\ rechargeReq'[k].pc = "idle" \/ (rechargeReq'[k].pc = "log" /\ rechargeReq'[k].row = rechargeReq[k].row)
<1>1. "log" \in RechargeSteps
  BY DEF RechargeSteps
<1>2. Return(k) \/ GotoStep(k, "log")
  BY DEF AfterSettling
<1>3. CASE Return(k)
  BY <1>3, RechargeFinishShape DEF Others
<1>4. CASE GotoStep(k, "log")
  BY <1>1, <1>4, RechargeGotoShape DEF Others
<1> QED
  BY <1>2, <1>3, <1>4

LEMMA RequestStep ==
  ASSUME RechargeTypeOK, Paying, NEW k \in RechargeRequests,
         \/ CreateLookup(k) \/ Progress(k) \/ Fail(k)
         \/ \E r \in Rows : StatusQuery(k, r)
  PROVE  /\ rechargeReq' \in [RechargeRequests -> Request]
         /\ log' \in [Rows -> [NotifyIds -> LogStates]]
         /\ StepEffect(k)
<1> USE DEF StepEffect, Others
<1>0. /\ log \in [Rows -> [NotifyIds -> LogStates]]
      /\ RechargeSteps = {"idle", "create", "expire", "expireThenCreate", "refresh",
                  "settle", "credit", "log"}
      /\ NoRecharge \in Rows \cup {NoRecharge} /\ NoNotify \in NotifyIds \cup {NoNotify}
      /\ Rows \subseteq Rows \cup {NoRecharge}
  BY DEF RechargeTypeOK, RechargeSteps
<1>1. CASE CreateLookup(k)
  <2>1. CASE Start(k, "create", NoRecharge, NoNotify)
    BY <1>0, <1>1, <2>1, RechargeStartShape DEF CreateLookup
  <2>2. CASE \E r \in Rows : r \in old /\ Start(k, "expireThenCreate", r, NoNotify)
    <3>1. PICK r \in Rows : r \in old /\ Start(k, "expireThenCreate", r, NoNotify)
      BY <2>2
    <3>2. /\ rechargeReq' \in [RechargeRequests -> Request]
          /\ rechargeReq'[k].pc = "expireThenCreate" /\ rechargeReq'[k].row = r
          /\ Others(k)
      BY <1>0, <3>1, RechargeStartShape
    <3> QED
      BY <1>0, <1>1, <3>1, <3>2 DEF CreateLookup
  <2> QED
    BY <1>1, <2>1, <2>2 DEF CreateLookup
<1>2. CASE \E r \in Rows : StatusQuery(k, r)
  <2>1. PICK r \in Rows : StatusQuery(k, r)
    BY <1>2
  <2>2. UNCHANGED <<status, old, trade, log, credits>>
    BY <2>1 DEF StatusQuery
  <2>3. CASE Start(k, "refresh", r, NoNotify)
    <3>1. /\ rechargeReq' \in [RechargeRequests -> Request]
          /\ rechargeReq'[k].pc = "refresh" /\ rechargeReq'[k].row = r /\ Others(k)
      BY <1>0, <2>3, RechargeStartShape
    <3> QED
      BY <1>0, <2>2, <3>1
  <2>4. CASE r \in old /\ Start(k, "expire", r, NoNotify)
    <3>1. /\ rechargeReq' \in [RechargeRequests -> Request]
          /\ rechargeReq'[k].pc = "expire" /\ rechargeReq'[k].row = r /\ Others(k)
      BY <1>0, <2>4, RechargeStartShape
    <3> QED
      BY <1>0, <2>2, <2>4, <3>1
  <2> QED
    BY <2>1, <2>3, <2>4 DEF StatusQuery
<1>3. CASE CreateInsert(k)
  <2>1. /\ rechargeReq' \in [RechargeRequests -> Request] /\ rechargeReq'[k].pc = "idle" /\ Others(k)
    BY <1>3, RechargeFinishShape DEF CreateInsert
  <2> QED
    BY <1>0, <1>3, <2>1 DEF CreateInsert
<1>4. CASE QueryTrade(k)
  <2>1. /\ UNCHANGED <<status, old, trade, log, credits>>
        /\ rechargeReq[k].row \in Rows
    BY <1>4 DEF QueryTrade, Paying
  <2>2. CASE trade[rechargeReq[k].row] = "PAID" /\ GotoStep(k, "settle")
    <3>1. /\ rechargeReq' \in [RechargeRequests -> Request]
          /\ rechargeReq'[k].pc = "settle" /\ rechargeReq'[k].row = rechargeReq[k].row /\ Others(k)
      BY <1>0, <2>2, RechargeGotoShape
    <3> QED
      BY <1>0, <2>1, <2>2, <3>1
  <2>3. CASE trade[rechargeReq[k].row] = "CLOSED" /\ GotoStep(k, "expire")
    <3>1. /\ rechargeReq' \in [RechargeRequests -> Request]
          /\ rechargeReq'[k].pc = "expire" /\ rechargeReq'[k].row = rechargeReq[k].row /\ Others(k)
      BY <1>0, <2>3, RechargeGotoShape
    <3> QED
      BY <1>0, <2>1, <2>3, <3>1
  <2>4. CASE Return(k)
    BY <1>0, <2>1, <2>4, RechargeFinishShape
  <2> QED
    BY <1>4, <2>2, <2>3, <2>4 DEF QueryTrade
<1>5. CASE SaveFailed(k)
  <2>1. /\ rechargeReq[k].pc \in {"expire", "expireThenCreate"}
        /\ status' = [status EXCEPT ![rechargeReq[k].row] = "FAILED"]
        /\ UNCHANGED <<old, trade, log, credits>>
    BY <1>5 DEF SaveFailed
  <2>2. CASE Return(k)
    BY <1>0, <2>1, <2>2, RechargeFinishShape
  <2>3. CASE rechargeReq' = [rechargeReq EXCEPT ![k] = [IdleRequest EXCEPT !.pc = "create"]]
    <3>1. /\ [IdleRequest EXCEPT !.pc = "create"] \in Request
          /\ [IdleRequest EXCEPT !.pc = "create"].pc = "create"
      BY <1>0, RequestShape DEF IdleRequest
    <3>2. /\ rechargeReq' \in [RechargeRequests -> Request] /\ rechargeReq'[k].pc = "create" /\ Others(k)
      BY <2>3, <3>1 DEF RechargeTypeOK
    <3> QED
      BY <1>0, <2>1, <3>2
  <2> QED
    BY <1>5, <2>2, <2>3 DEF SaveFailed
<1>6. CASE Settle(k)
  <2>1. /\ rechargeReq[k].pc = "settle" /\ UNCHANGED <<old, trade, log, credits>>
    BY <1>6 DEF Settle
  <2>2. CASE /\ AfterSettling(k) /\ UNCHANGED status
             /\ status[rechargeReq[k].row] = "PAID"
    BY <1>0, <2>1, <2>2, AfterSettlingShape
  <2>3. CASE /\ status[rechargeReq[k].row] # "PAID"
             /\ status' = [status EXCEPT ![rechargeReq[k].row] = "PAID"]
             /\ GotoStep(k, "credit")
    <3>1. /\ rechargeReq' \in [RechargeRequests -> Request]
          /\ rechargeReq'[k].pc = "credit" /\ rechargeReq'[k].row = rechargeReq[k].row /\ Others(k)
      BY <1>0, <2>3, RechargeGotoShape
    <3> QED
      BY <1>0, <2>1, <2>3, <3>1
  <2> QED
    BY <1>6, <2>2, <2>3 DEF Settle, AlreadySettled
<1>7. CASE Credit(k)
  BY <1>0, <1>7, AfterSettlingShape DEF Credit
<1>8. CASE MarkProcessed(k)
  <2>1. /\ rechargeReq' \in [RechargeRequests -> Request] /\ rechargeReq'[k].pc = "idle" /\ Others(k)
    BY <1>8, RechargeFinishShape DEF MarkProcessed
  <2>2. log' \in [Rows -> [NotifyIds -> LogStates]]
    BY <1>0, <1>8 DEF MarkProcessed, LogStates
  <2> QED
    BY <1>8, <2>1, <2>2 DEF MarkProcessed
<1>9. CASE Fail(k)
  BY <1>0, <1>9, RechargeFinishShape DEF Fail
<1> QED
  BY <1>1, <1>2, <1>3, <1>4, <1>5, <1>6, <1>7, <1>8, <1>9 DEF Progress

LEMMA RechargeNotifyStep ==
  ASSUME RechargeTypeOK, NEW k \in RechargeRequests, NEW r \in Rows, NEW n \in NotifyIds,
         Notify(k, r, n)
  PROVE  /\ rechargeReq' \in [RechargeRequests -> Request]
         /\ log' \in [Rows -> [NotifyIds -> LogStates]]
         /\ StepEffect(k)
<1>1. /\ "settle" \in RechargeSteps /\ "open" \in LogStates
      /\ log \in [Rows -> [NotifyIds -> LogStates]]
  BY DEF RechargeSteps, LogStates, RechargeTypeOK
<1>2. log' \in [Rows -> [NotifyIds -> LogStates]]
  BY <1>1 DEF Notify
<1>3. /\ rechargeReq' \in [RechargeRequests -> Request] /\ Others(k)
      /\ rechargeReq'[k].pc = "settle" /\ rechargeReq'[k].row = r
  BY <1>1, RechargeStartShape DEF Notify, Others
<1> QED
  BY <1>2, <1>3 DEF Notify, StepEffect, TradeSucceeded

\* Every step of the system is a step of one request, or of the world.
LEMMA NextSummary ==
  ASSUME RechargeTypeOK, Paying, RechargeNext
  PROVE  \/ \E k \in RechargeRequests : /\ rechargeReq' \in [RechargeRequests -> Request]
                                /\ log' \in [Rows -> [NotifyIds -> LogStates]]
                                /\ StepEffect(k)
         \/ \E r \in Rows : Expire(r) \/ TradeEnds(r)
<1>1. CASE \E k \in RechargeRequests : \/ CreateLookup(k) \/ Progress(k) \/ Fail(k)
                              \/ \E r \in Rows : StatusQuery(k, r)
  BY <1>1, RequestStep
<1>2. CASE \E r \in Rows, k \in RechargeRequests, n \in NotifyIds : Notify(k, r, n)
  BY <1>2, RechargeNotifyStep
<1>3. CASE \E r \in Rows : Expire(r) \/ TradeEnds(r)
  BY <1>3
<1> QED
  BY <1>1, <1>2, <1>3 DEF RechargeNext, Redeliver

\* Only a request that dies counts as one, and the bound holds then.
LEMMA FailuresStep ==
  ASSUME RechargeTypeOK, RechargeNext
  PROVE  failures' \in 0..MaxFailures
<1>0. failures \in 0..MaxFailures /\ MaxFailures \in Nat
  BY CreditsAssumption DEF RechargeTypeOK
<1>1. CASE \E k \in RechargeRequests : Fail(k)
  BY <1>0, <1>1 DEF Fail
<1>2. CASE UNCHANGED failures
  BY <1>0, <1>2
<1>3. ASSUME NEW k \in RechargeRequests, Progress(k)
      PROVE  UNCHANGED failures
  BY <1>3 DEF Progress, CreateInsert, QueryTrade, SaveFailed, Settle, Credit,
     MarkProcessed
<1>4. ASSUME NEW k \in RechargeRequests,
             CreateLookup(k) \/ \E r \in Rows : StatusQuery(k, r)
      PROVE  UNCHANGED failures
  BY <1>4 DEF CreateLookup, StatusQuery
<1>5. ASSUME NEW r \in Rows, Redeliver(r) \/ Expire(r) \/ TradeEnds(r)
      PROVE  UNCHANGED failures
  BY <1>5 DEF Redeliver, Notify, Expire, TradeEnds
<1> QED
  BY <1>1, <1>2, <1>3, <1>4, <1>5 DEF RechargeNext

-----------------------------------------------------------------------------
LEMMA StepKeepsBInv ==
  ASSUME BInv, NEW k \in RechargeRequests, StepEffect(k),
         rechargeReq' \in [RechargeRequests -> Request],
         log' \in [Rows -> [NotifyIds -> LogStates]],
         failures' \in 0..MaxFailures
  PROVE  BInv'
<1>1. /\ RechargeTypeOK /\ CreditsBacked /\ Paying
      /\ old' = old /\ trade' = trade /\ Others(k)
  BY DEF BInv, StepEffect
<1>2. /\ \A j \in RechargeRequests : rechargeReq[j].pc \in {"settle", "credit", "log"} =>
             rechargeReq[j].row \in Rows /\ trade[rechargeReq[j].row] = "PAID"
      /\ \A j \in RechargeRequests : rechargeReq[j].pc \in {"refresh", "expire", "expireThenCreate"} =>
             rechargeReq[j].row \in Rows
  BY <1>1 DEF Paying
<1>3. /\ rechargeReq'[k].pc \in {"settle", "credit", "log"} =>
            rechargeReq'[k].row \in Rows /\ trade[rechargeReq'[k].row] = "PAID"
      /\ rechargeReq'[k].pc \in {"refresh", "expire", "expireThenCreate"} =>
            rechargeReq'[k].row \in Rows
  BY <1>2 DEF StepEffect
<1>4. Paying'
  BY <1>1, <1>2, <1>3 DEF Paying, Others
<1>5. /\ status' \in [Rows -> RechargeStatuses]
      /\ credits' \in [Rows -> Nat]
      /\ \A r \in Rows : credits'[r] > 0 \/ status'[r] = "PAID" => trade[r] = "PAID"
  <2>0. /\ status \in [Rows -> RechargeStatuses] /\ credits \in [Rows -> Nat]
        /\ \A r \in Rows : credits[r] > 0 \/ status[r] = "PAID" => trade[r] = "PAID"
        /\ "PAID" \in RechargeStatuses /\ "INIT" \in RechargeStatuses /\ "FAILED" \in RechargeStatuses
    BY <1>1 DEF RechargeTypeOK, CreditsBacked, RechargeStatuses
  <2>1. CASE UNCHANGED <<status, credits>>
    BY <2>0, <2>1
  <2>2. CASE /\ UNCHANGED credits
             /\ \E r \in Rows : status' = [status EXCEPT ![r] = "INIT"]
    BY <2>0, <2>2
  <2>3. CASE /\ rechargeReq[k].pc \in {"expire", "expireThenCreate"}
             /\ status' = [status EXCEPT ![rechargeReq[k].row] = "FAILED"]
             /\ UNCHANGED credits
    BY <1>2, <2>0, <2>3
  <2>4. CASE /\ rechargeReq[k].pc = "settle"
             /\ status' = [status EXCEPT ![rechargeReq[k].row] = "PAID"]
             /\ UNCHANGED credits
    BY <1>2, <2>0, <2>4
  <2>5. CASE /\ rechargeReq[k].pc = "credit"
             /\ credits' = [credits EXCEPT ![rechargeReq[k].row] = @ + 1]
             /\ UNCHANGED status
    BY <1>2, <2>0, <2>5
  <2> QED
    BY <2>1, <2>2, <2>3, <2>4, <2>5 DEF StepEffect
<1> QED
  BY <1>1, <1>4, <1>5 DEF BInv, RechargeTypeOK, CreditsBacked

LEMMA WorldKeepsBInv ==
  ASSUME BInv, NEW r \in Rows, Expire(r) \/ TradeEnds(r)
  PROVE  BInv'
<1>1. CASE Expire(r)
  BY <1>1 DEF BInv, RechargeTypeOK, CreditsBacked, Paying, Expire
<1>2. CASE TradeEnds(r)
  <2>1. /\ UNCHANGED <<status, old, log, rechargeReq, credits, failures>>
        /\ trade' \in [Rows -> Trades]
        /\ \A s \in Rows : trade[s] = "PAID" => trade'[s] = "PAID"
    BY <1>2 DEF TradeEnds, BInv, RechargeTypeOK, Trades
  <2> QED
    BY <2>1 DEF BInv, RechargeTypeOK, CreditsBacked, Paying
<1> QED
  BY <1>1, <1>2

LEMMA BInvInductive == BInv /\ [RechargeNext]_rechargeVars => BInv'
<1> SUFFICES ASSUME BInv, [RechargeNext]_rechargeVars PROVE BInv'
  OBVIOUS
<1>1. CASE RechargeNext
  BY <1>1, NextSummary, FailuresStep, StepKeepsBInv, WorldKeepsBInv DEF BInv
<1>2. CASE UNCHANGED rechargeVars
  BY <1>2 DEF rechargeVars, BInv, RechargeTypeOK, CreditsBacked, Paying
<1> QED
  BY <1>1, <1>2

\* The tables and the requests keep their shape, for any number of rows,
\* notify ids and requests.
THEOREM RechargeTypeCorrect == RechargeSpec => []RechargeTypeOK
<1>1. BInv => RechargeTypeOK
  BY DEF BInv
<1> QED
  BY <1>1, InitBInv, BInvInductive, PTL DEF RechargeSpec

-----------------------------------------------------------------------------
(* One credit per recharge, while no row outlives its 15 minutes.         *)

\* A FAILED save is under way only for a trade that Alipay closed unpaid.
ClosedForGood ==
    \A k \in RechargeRequests : rechargeReq[k].pc \in {"expire", "expireThenCreate"} =>
                          trade[rechargeReq[k].row] = "CLOSED"

\* One request at most holds the credit of a row, and none was made before.
OneCrediting ==
    \A j \in RechargeRequests : rechargeReq[j].pc = "credit" =>
      /\ status[rechargeReq[j].row] = "PAID"
      /\ credits[rechargeReq[j].row] = 0
      /\ \A k \in RechargeRequests : rechargeReq[k].pc = "credit" /\ rechargeReq[k].row = rechargeReq[j].row => k = j

CreditNeedsPaid == \A r \in Rows : status[r] # "PAID" => credits[r] = 0

OnceEach == \A r \in Rows : credits[r] <= 1

OInv ==
    /\ BInv
    /\ old = {}
    /\ ClosedForGood
    /\ OneCrediting
    /\ CreditNeedsPaid
    /\ OnceEach

LEMMA InitOInv == RechargeInit => OInv
  BY InitBInv DEF OInv, RechargeInit, ClosedForGood, OneCrediting, CreditNeedsPaid,
     OnceEach, IdleRequest

LEMMA StepKeepsOInv ==
  ASSUME OInv, BInv', NEW k \in RechargeRequests, StepEffect(k)
  PROVE  OInv'
<1>1. /\ BInv /\ old = {} /\ old' = old /\ trade' = trade
      /\ \A j \in RechargeRequests : j # k => rechargeReq'[j] = rechargeReq[j]
  BY DEF OInv, StepEffect, Others
<1>2. ClosedForGood'
  <2>1. rechargeReq'[k].pc \in {"expire", "expireThenCreate"} => trade[rechargeReq'[k].row] = "CLOSED"
    BY <1>1 DEF StepEffect
  <2> QED
    BY <1>1, <2>1 DEF OInv, ClosedForGood
<1>3. /\ status \in [Rows -> RechargeStatuses] /\ credits \in [Rows -> Nat]
      /\ \A j \in RechargeRequests : rechargeReq[j].pc \in {"settle", "credit"} =>
            rechargeReq[j].row \in Rows /\ trade[rechargeReq[j].row] = "PAID"
      /\ rechargeReq[k].pc \in {"expire", "expireThenCreate"} =>
            rechargeReq[k].row \in Rows /\ status[rechargeReq[k].row] # "PAID"
    BY <1>1 DEF OInv, BInv, RechargeTypeOK, Paying, CreditsBacked, ClosedForGood
<1>4. OneCrediting /\ CreditNeedsPaid /\ OnceEach
  BY DEF OInv
<1>5. OneCrediting' /\ CreditNeedsPaid' /\ OnceEach'
  <2>1. CASE /\ UNCHANGED <<status, credits>>
             /\ rechargeReq'[k].pc # "credit"
    <3>1. \A j \in RechargeRequests : rechargeReq'[j].pc = "credit" => j # k /\ rechargeReq'[j] = rechargeReq[j]
      BY <1>1, <2>1
    <3> QED
      BY <1>4, <2>1, <3>1 DEF OneCrediting, CreditNeedsPaid, OnceEach
  <2>2. CASE /\ rechargeReq'[k].pc # "credit" /\ UNCHANGED credits
             /\ \E r \in Rows : \E v \in RechargeStatuses :
                   /\ status[r] # "PAID" /\ v # "PAID"
                   /\ status' = [status EXCEPT ![r] = v]
    <3>1. \A j \in RechargeRequests : rechargeReq'[j].pc = "credit" => j # k /\ rechargeReq'[j] = rechargeReq[j]
      BY <1>1, <2>2
    <3>2. \A r \in Rows : status'[r] = "PAID" <=> status[r] = "PAID"
      BY <1>3, <2>2
    <3> QED
      BY <1>3, <1>4, <2>2, <3>1, <3>2 DEF OneCrediting, CreditNeedsPaid, OnceEach
  <2>3. CASE /\ rechargeReq[k].pc = "settle" /\ status[rechargeReq[k].row] # "PAID"
             /\ status' = [status EXCEPT ![rechargeReq[k].row] = "PAID"]
             /\ rechargeReq'[k].pc = "credit" /\ rechargeReq'[k].row = rechargeReq[k].row
             /\ UNCHANGED credits
    <3>1. /\ credits[rechargeReq[k].row] = 0
          /\ \A j \in RechargeRequests : rechargeReq[j].pc = "credit" => rechargeReq[j].row # rechargeReq[k].row
      BY <1>3, <1>4, <2>3 DEF OneCrediting, CreditNeedsPaid
    <3>2. /\ status'[rechargeReq[k].row] = "PAID"
          /\ \A r \in Rows : r # rechargeReq[k].row => status'[r] = status[r]
      BY <1>3, <2>3
    <3>3. \A j \in RechargeRequests : rechargeReq'[j].pc = "credit" =>
            \/ j = k /\ rechargeReq'[j].row = rechargeReq[k].row
            \/ /\ j # k /\ rechargeReq'[j] = rechargeReq[j] /\ rechargeReq[j].pc = "credit"
               /\ rechargeReq[j].row # rechargeReq[k].row
      BY <1>1, <2>3, <3>1
    <3>4. OneCrediting'
      BY <1>3, <1>4, <2>3, <3>1, <3>2, <3>3 DEF OneCrediting
    <3> QED
      BY <1>4, <2>3, <3>2, <3>4 DEF CreditNeedsPaid, OnceEach
  <2>4. CASE /\ rechargeReq[k].pc = "credit"
             /\ credits' = [credits EXCEPT ![rechargeReq[k].row] = @ + 1]
             /\ UNCHANGED status
             /\ rechargeReq'[k].pc # "credit"
    <3>1. /\ rechargeReq[k].row \in Rows /\ status[rechargeReq[k].row] = "PAID"
          /\ credits[rechargeReq[k].row] = 0
          /\ \A j \in RechargeRequests : rechargeReq[j].pc = "credit" /\ j # k => rechargeReq[j].row # rechargeReq[k].row
      BY <1>3, <1>4, <2>4 DEF OneCrediting
    <3>2. /\ credits'[rechargeReq[k].row] = 1
          /\ \A r \in Rows : r # rechargeReq[k].row => credits'[r] = credits[r]
      BY <1>3, <2>4, <3>1
    <3>3. \A j \in RechargeRequests : rechargeReq'[j].pc = "credit" =>
            j # k /\ rechargeReq'[j] = rechargeReq[j] /\ rechargeReq[j].row # rechargeReq[k].row
      BY <1>1, <2>4, <3>1
    <3>4. OneCrediting'
      BY <1>3, <1>4, <2>4, <3>2, <3>3 DEF OneCrediting
    <3> QED
      BY <1>3, <1>4, <2>4, <3>1, <3>2, <3>4 DEF CreditNeedsPaid, OnceEach
  <2>5. {"INIT", "FAILED"} \subseteq RechargeStatuses
    BY DEF RechargeStatuses
  <2> QED
    BY <1>3, <2>1, <2>2, <2>3, <2>4, <2>5 DEF StepEffect
<1> QED
  BY <1>1, <1>2, <1>5 DEF OInv

LEMMA WorldKeepsOInv ==
  ASSUME OInv, BInv', old' = {}, NEW r \in Rows, Expire(r) \/ TradeEnds(r)
  PROVE  OInv'
<1>1. TradeEnds(r)
  BY DEF Expire
<1>2. /\ UNCHANGED <<status, old, rechargeReq, credits>>
      /\ \A s \in Rows : trade[s] = "CLOSED" => trade'[s] = "CLOSED"
  BY <1>1 DEF TradeEnds, OInv, BInv, RechargeTypeOK
<1>3. ClosedForGood'
  BY <1>2 DEF OInv, BInv, Paying, ClosedForGood
<1> QED
  BY <1>2, <1>3 DEF OInv, OneCrediting, CreditNeedsPaid, OnceEach

\* What is proved of a state without old rows says nothing of the others.
FreshInv == BInv /\ (old = {} => OInv)

LEMMA FreshInvInductive == FreshInv /\ [RechargeNext]_rechargeVars => FreshInv'
<1> SUFFICES ASSUME FreshInv, [RechargeNext]_rechargeVars PROVE FreshInv'
  OBVIOUS
<1>1. BInv' /\ BInv
  BY BInvInductive DEF FreshInv
<1>2. CASE RechargeNext
  <2> SUFFICES ASSUME old' = {} PROVE OInv'
    BY <1>1 DEF FreshInv
  <2>1. RechargeTypeOK /\ Paying
    BY <1>1 DEF BInv
  <2>2. CASE \E k \in RechargeRequests : StepEffect(k)
    <3>1. old = {}
      BY <2>2 DEF StepEffect
    <3> QED
      BY <1>1, <2>2, <3>1, StepKeepsOInv DEF FreshInv
  <2>3. CASE \E r \in Rows : Expire(r) \/ TradeEnds(r)
    <3>1. old = {}
      BY <2>3 DEF Expire, TradeEnds
    <3> QED
      BY <1>1, <2>3, <3>1, WorldKeepsOInv DEF FreshInv
  <2> QED
    BY <1>2, <2>1, <2>2, <2>3, NextSummary
<1>3. CASE UNCHANGED rechargeVars
  BY <1>1, <1>3 DEF rechargeVars, FreshInv, OInv, ClosedForGood, OneCrediting,
     CreditNeedsPaid, OnceEach
<1> QED
  BY <1>2, <1>3

\* The balance only grows by money Alipay has received, and by a recharge at
\* most once until a recharge order outlives its 15 minutes, with any number
\* of concurrent callbacks, polls, expiries and failures.
THEOREM CreditsMatchPayments == RechargeSpec => []CreditsMatch
<1>1. FreshInv => CreditsMatch
  BY DEF FreshInv, BInv, OInv, OnceEach, CreditedOnce, CreditsMatch
<1>2. RechargeInit => FreshInv
  BY InitBInv, InitOInv DEF FreshInv
<1> QED
  BY <1>1, <1>2, FreshInvInductive, PTL DEF RechargeSpec

-----------------------------------------------------------------------------
(* "success" is answered only for money in the balance or on its way.       *)

Backed(r) == credits[r] >= 1 \/ Crediting(r)

\* Whatever lets a request acknowledge, a settled row or a settlement passed,
\* has the credit behind it, as long as no request died.
Acks ==
    /\ \A r \in Rows, n \in NotifyIds : log[r][n] = "processed" => Backed(r)
    /\ \A r \in Rows : status[r] = "PAID" => Backed(r)
    /\ \A k \in RechargeRequests : rechargeReq[k].pc = "log" => Backed(rechargeReq[k].row)

AInv == BInv /\ (failures = 0 => Acks)

Acts(k) ==
    \/ CreateLookup(k) \/ Progress(k)
    \/ \E r \in Rows : StatusQuery(k, r)
    \/ \E r \in Rows, n \in NotifyIds : Notify(k, r, n)

LEMMA ActsStep ==
  ASSUME BInv, NEW k \in RechargeRequests, Acts(k)
  PROVE  StepEffect(k)
<1>1. RechargeTypeOK /\ Paying
  BY DEF BInv
<1> QED
  BY <1>1, RequestStep, RechargeNotifyStep DEF Acts

\* A request that holds a credit can only make it.
LEMMA CreditingCredits ==
  ASSUME NEW k \in RechargeRequests, Acts(k), rechargeReq[k].pc = "credit"
  PROVE  Credit(k)
  BY DEF Acts, Progress, CreateLookup, CreateInsert, QueryTrade, SaveFailed,
     Settle, MarkProcessed, StatusQuery, Notify, Start, IdleRequest

LEMMA BackedStays ==
  ASSUME BInv, NEW k \in RechargeRequests, Acts(k), NEW r \in Rows, Backed(r)
  PROVE  Backed(r)'
<1>1. StepEffect(k) /\ credits \in [Rows -> Nat]
  BY ActsStep DEF BInv, RechargeTypeOK
<1>2. credits'[r] >= credits[r] /\ credits[r] \in Nat
  BY <1>1 DEF StepEffect, BInv, Paying
<1>3. CASE credits[r] >= 1
  BY <1>1, <1>2, <1>3 DEF Backed, StepEffect, BInv, RechargeTypeOK
<1>4. CASE Crediting(r)
  <2>1. PICK j \in RechargeRequests : rechargeReq[j].pc = "credit" /\ rechargeReq[j].row = r
    BY <1>4 DEF Crediting
  <2>2. CASE j = k
    BY <1>1, <2>1, <2>2, CreditingCredits DEF Credit, Backed
  <2>3. CASE j # k
    BY <1>1, <2>1, <2>3 DEF StepEffect, Others, Backed, Crediting
  <2> QED
    BY <2>2, <2>3
<1> QED
  BY <1>3, <1>4 DEF Backed

\* Only a request past the settlement marks its notification as processed.
LEMMA LogStep ==
  ASSUME RechargeTypeOK, NEW k \in RechargeRequests, Acts(k),
         NEW r \in Rows, NEW n \in NotifyIds, log'[r][n] = "processed"
  PROVE  log[r][n] = "processed" \/ (rechargeReq[k].pc = "log" /\ rechargeReq[k].row = r)
<1>1. log \in [Rows -> [NotifyIds -> LogStates]]
  BY DEF RechargeTypeOK
<1>2. CASE UNCHANGED log
  BY <1>2
<1>3. CASE MarkProcessed(k)
  BY <1>1, <1>3 DEF MarkProcessed
<1>4. CASE \E s \in Rows, m \in NotifyIds : Notify(k, s, m)
  BY <1>1, <1>4 DEF Notify
<1> QED
  BY <1>2, <1>3, <1>4 DEF Acts, Progress, CreateLookup, CreateInsert,
     QueryTrade, SaveFailed, Settle, Credit, StatusQuery

LEMMA ActsKeepAcks ==
  ASSUME BInv, Acks, NEW k \in RechargeRequests, Acts(k)
  PROVE  Acks'
<1>1. StepEffect(k) /\ \A r \in Rows : Backed(r) => Backed(r)'
  BY ActsStep, BackedStays
<1>2. /\ RechargeTypeOK /\ Paying
      /\ status \in [Rows -> RechargeStatuses] /\ credits \in [Rows -> Nat]
  BY DEF BInv, RechargeTypeOK
<1>3. ASSUME NEW r \in Rows, NEW n \in NotifyIds, log'[r][n] = "processed"
      PROVE  Backed(r)'
  BY <1>1, <1>2, <1>3, LogStep DEF Acks
<1>4. ASSUME NEW r \in Rows, status'[r] = "PAID" PROVE Backed(r)'
  <2>1. CASE status[r] = "PAID"
    BY <1>1, <2>1 DEF Acks
  <2>2. CASE status[r] # "PAID"
    <3>1. rechargeReq'[k].pc = "credit" /\ rechargeReq'[k].row = r
      BY <1>1, <1>2, <1>4, <2>2 DEF StepEffect, Paying
    <3> QED
      BY <3>1 DEF Backed, Crediting
  <2> QED
    BY <2>1, <2>2
<1>5. ASSUME NEW j \in RechargeRequests, rechargeReq'[j].pc = "log" PROVE Backed(rechargeReq[j].row)'
  <2>1. CASE j # k
    <3>1. rechargeReq'[j] = rechargeReq[j] /\ rechargeReq[j].row \in Rows
      BY <1>1, <1>2, <1>5, <2>1 DEF StepEffect, Others, Paying
    <3> QED
      BY <1>1, <1>5, <3>1 DEF Acks, Backed, Crediting
  <2>2. CASE j = k
    <3>1. \/ /\ rechargeReq[k].pc = "settle" /\ status[rechargeReq[k].row] = "PAID"
             /\ rechargeReq'[k].row = rechargeReq[k].row
          \/ /\ rechargeReq[k].pc = "credit" /\ rechargeReq'[k].row = rechargeReq[k].row
             /\ Crediting(rechargeReq[k].row)
      BY <1>1, <1>5, <2>2 DEF StepEffect, Crediting
    <3>2. rechargeReq[k].row \in Rows /\ Backed(rechargeReq[k].row)
      BY <1>2, <3>1 DEF Acks, Paying, Backed
    <3> QED
      BY <1>1, <2>2, <3>1, <3>2 DEF Backed, Crediting
  <2> QED
    BY <2>1, <2>2
<1> QED
  BY <1>3, <1>4, <1>5 DEF Acks, Backed, Crediting

LEMMA AInvInductive == AInv /\ [RechargeNext]_rechargeVars => AInv'
<1> SUFFICES ASSUME AInv, [RechargeNext]_rechargeVars PROVE AInv'
  OBVIOUS
<1>1. BInv /\ BInv'
  BY BInvInductive DEF AInv
<1>2. CASE \E k \in RechargeRequests : Acts(k)
  <2>1. PICK k \in RechargeRequests : Acts(k)
    BY <1>2
  <2>2. UNCHANGED failures
    BY <2>1 DEF Acts, Progress, CreateLookup, CreateInsert, QueryTrade,
       SaveFailed, Settle, Credit, MarkProcessed, StatusQuery, Notify
  <2> QED
    BY <1>1, <2>1, <2>2, ActsKeepAcks DEF AInv
<1>3. CASE \E k \in RechargeRequests : Fail(k)
  <2>1. failures' = failures + 1 /\ failures \in Nat
    BY <1>1, <1>3, CreditsAssumption DEF Fail, BInv, RechargeTypeOK
  <2> QED
    BY <1>1, <2>1 DEF AInv
<1>4. CASE \/ \E r \in Rows : Expire(r) \/ TradeEnds(r)
          \/ UNCHANGED rechargeVars
  <2>1. UNCHANGED <<status, log, rechargeReq, credits, failures>>
    BY <1>4 DEF Expire, TradeEnds, rechargeVars
  <2> QED
    BY <1>1, <2>1 DEF AInv, Acks, Backed, Crediting
<1> QED
  BY <1>2, <1>3, <1>4 DEF RechargeNext, Acts, Redeliver

\* An acknowledged notification stands for money that was added, or that a
\* request still holds in its hands, with any number of callbacks under any
\* number of notify ids, unless a request died in between.
THEOREM AcknowledgedIsCredited == RechargeSpec => []AckMeansCredit
<1>1. RechargeInit => AInv
  BY InitBInv DEF AInv, Acks, RechargeInit, IdleRequest
<1>2. AInv => AckMeansCredit
  <2> SUFFICES ASSUME AInv, NEW r \in Rows, NEW n \in NotifyIds,
                      log[r][n] = "processed"
               PROVE  credits[r] >= 1 \/ Crediting(r) \/ failures > 0
    BY DEF AckMeansCredit
  <2>1. failures \in Nat
    BY CreditsAssumption DEF AInv, BInv, RechargeTypeOK
  <2> QED
    BY <2>1 DEF AInv, Acks, Backed
<1> QED
  BY <1>1, <1>2, AInvInductive, PTL DEF RechargeSpec

-----------------------------------------------------------------------------
(* The settlement that follows an accepted delivery, and its disputes, for  *)
(* any number of requests, disputes and overlapping operations.  The        *)
(* inductive invariant follows the money through the copies that operations *)
(* hold: an operation that will save "settled" was preceded by a payout,    *)
(* the mark on the order by the status of the settlement.  While no         *)
(* operation has begun during another one, the copies are the rows, and the *)
(* payouts are counted exactly.                                             *)

SettleRequest == [at : Steps, order : OrderRow, settlement : SettlementRow,
                  id : Disputes \cup {NoDispute}, dispute : DisputeRow,
                  list : SUBSET Disputes]

\* The settlement has left "pending".
Done == {"settled", "appeal_closed"}

\* What SettledIsPaid and ResolvedIffDecided say, of any row.
Paid(row, paid) == row.status \in Done /\ row.payable => paid >= 1
Whole(row) == row.resolution <=> row.status \in {"resolved", "acknowledged"}

\* What an operation has checked still holds of its copies.
SettleOpSound(r) ==
    /\ Whole(r.dispute)
    /\ r.at \in DisputeSteps => /\ r.id \in Disputes
                                /\ r.dispute.status \in Accepting(r.at)
    /\ r.at = "close" => r.settlement.status = "settled"
    /\ r.at = "pay" => FirstWriteback(r.settlement)

\* The money was paid before "settled" is saved, and that before the mark.
MoneySound(r, row, paid) ==
    /\ r.order.settled \/ r.at \in {"load", "mark", "appeal"}
         => row.status \in Done
    /\ r.at \in {"settle", "close"} /\ r.settlement.payable => paid >= 1

\* The copies an operation will save are the rows.
SettleCurrent(r, row, table) ==
    /\ r.at \in {"pay", "settle", "close"} => r.settlement = row
    /\ r.at \in DisputeSteps => r.dispute = table[r.id]

\* The ownerPayouts counted, with the one that is not yet written down.
Owed(row, closed) ==
    CASE row.status \in {"none", "pending"} -> 0
      [] row.status = "settled" -> closed + 1
      [] row.status = "appeal_closed" -> closed
Ahead(r) == r.at = "settle" /\ r.settlement.status # "settled"
Counted(r, row, paid, closed) ==
    /\ row.status \in {"none", "pending"} => closed = 0
    /\ ~row.payable => paid = 0
    /\ row.payable /\ ~Ahead(r) => paid = Owed(row, closed)
    /\ row.payable /\ Ahead(r) => paid = Owed(row, closed) + 1

SettleAlone(p) == \A q \in Processes \ {p} : Free(q)

SettleSerial ==
    overlaps = 0 => \A p \in Processes :
      /\ ~Free(p) => SettleAlone(p)
      /\ SettleCurrent(req[p], settlement, disputes)

Ledger ==
    overlaps = 0 /\ stops = 0 =>
      \A p \in Processes :
        SettleAlone(p) => Counted(req[p], settlement, ownerPayouts, closings)

SettleIInv ==
    /\ SettlementTypeOK
    /\ Paid(settlement, ownerPayouts)
    /\ order.settled => settlement.status \in Done
    /\ \A d \in Disputes : Whole(disputes[d])
    /\ \A p \in Processes : SettleOpSound(req[p])
    /\ \A p \in Processes : MoneySound(req[p], settlement, ownerPayouts)
    /\ SettleSerial
    /\ Ledger

-----------------------------------------------------------------------------
LEMMA SettleIdleSound ==
    /\ Idle \in SettleRequest /\ SettleOpSound(Idle) /\ ~Ahead(Idle)
    /\ \A row, paid : MoneySound(Idle, row, paid)
    /\ \A row, table : SettleCurrent(Idle, row, table)
    /\ NewDispute \in DisputeRow /\ Whole(NewDispute)
    /\ NewOrder \in OrderRow /\ ~NewOrder.settled
    /\ NewSettlement \in SettlementRow
<1>1. NewDispute \in DisputeRow /\ Whole(NewDispute)
  BY DEF NewDispute, DisputeRow, DisputeStatuses, Whole
<1>2. NewOrder \in OrderRow /\ ~NewOrder.settled
  BY DEF NewOrder, OrderRow
<1>3. NewSettlement \in SettlementRow
  BY DEF NewSettlement, SettlementRow, SettlementStatuses
<1>4. Idle \in SettleRequest
  BY <1>1, <1>2, <1>3 DEF Idle, SettleRequest, Steps
<1>5. /\ Idle.at = "idle" /\ Idle.order = NewOrder
      /\ Idle.dispute = NewDispute
  BY DEF Idle
<1>6. SettleOpSound(Idle) /\ ~Ahead(Idle)
  BY <1>1, <1>5 DEF SettleOpSound, DisputeSteps, Ahead
<1>7. \A row, paid : MoneySound(Idle, row, paid)
  BY <1>2, <1>5 DEF MoneySound
<1>8. \A row, table : SettleCurrent(Idle, row, table)
  BY <1>5 DEF SettleCurrent, DisputeSteps
<1> QED BY <1>1, <1>2, <1>3, <1>4, <1>6, <1>7, <1>8

LEMMA SettleInitIInv == SettlementInit => SettleIInv
<1> SUFFICES ASSUME SettlementInit PROVE SettleIInv OBVIOUS
<1>1. SettlementTypeOK
  BY SettleIdleSound, BoundAssumption DEF SettlementInit, SettlementTypeOK, SettleRequest
<1>2. Paid(settlement, ownerPayouts) /\ (order.settled => settlement.status \in Done)
  BY SettleIdleSound DEF SettlementInit, Paid, Done, NewSettlement
<1>3. \A d \in Disputes : Whole(disputes[d])
  BY SettleIdleSound DEF SettlementInit
<1>4. \A p \in Processes : /\ SettleOpSound(req[p])
                           /\ MoneySound(req[p], settlement, ownerPayouts)
  BY SettleIdleSound DEF SettlementInit
<1>5. SettleSerial
  BY SettleIdleSound DEF SettlementInit, SettleSerial, SettleAlone, Free
<1>6. Ledger
  <2>1. Counted(Idle, NewSettlement, 0, 0)
    BY DEF Counted, NewSettlement
  <2> QED BY <2>1 DEF SettlementInit, Ledger
<1> QED BY <1>1, <1>2, <1>3, <1>4, <1>5, <1>6 DEF SettleIInv

\* An operation begins, with rows as they are.
LEMMA SettleBeginKeeps ==
    ASSUME SettleIInv, NEW p \in Processes, NEW v \in SettleRequest, Begin(p, v),
           SettleOpSound(v), MoneySound(v, settlement, ownerPayouts),
           SettleCurrent(v, settlement, disputes), Ahead(v) => ~settlement.payable
    PROVE  SettleIInv'
<1>1. /\ req' = [req EXCEPT ![p] = v] /\ Free(p)
      /\ UNCHANGED <<order, settlement, ownerPayouts, closings, disputes, stops>>
  BY DEF Begin, Load, rows, money
<1>2. req' \in [Processes -> SettleRequest]
  BY <1>1 DEF SettleIInv, SettlementTypeOK, SettleRequest
<1>3. overlaps' \in 0..MaxDisturbed
  BY BoundAssumption DEF Begin, SettleIInv, SettlementTypeOK
<1>4. SettlementTypeOK'
  BY <1>1, <1>2, <1>3 DEF SettleIInv, SettlementTypeOK, SettleRequest
<1>5. req'[p] = v /\ \A q \in Processes \ {p} : req'[q] = req[q]
  BY <1>1 DEF SettleIInv, SettlementTypeOK
<1>6. \A q \in Processes : /\ SettleOpSound(req'[q])
                           /\ MoneySound(req'[q], settlement, ownerPayouts)
  BY <1>5 DEF SettleIInv
<1>7. ASSUME overlaps' = 0 PROVE overlaps = 0 /\ \A q \in Processes : Free(q)
  BY <1>7, BoundAssumption DEF Begin, Quiet, SettleIInv, SettlementTypeOK
<1>8. SettleSerial'
  <2> SUFFICES ASSUME overlaps' = 0 PROVE SettleSerial' BY DEF SettleSerial
  <2>1. \A q \in Processes \ {p} : req'[q] = Idle
    BY <1>5, <1>7 DEF Free
  <2> QED BY <1>1, <1>5, <2>1, SettleIdleSound DEF SettleSerial, Free, SettleAlone
<1>9. Ledger'
  <2> SUFFICES ASSUME overlaps' = 0, stops = 0,
                      NEW q \in Processes, SettleAlone(q)'
               PROVE  Counted(req'[q], settlement, ownerPayouts, closings)
    BY <1>1 DEF Ledger
  <2>1. Counted(Idle, settlement, ownerPayouts, closings)
    BY <1>7 DEF SettleIInv, Ledger, SettleAlone, Free
  <2>2. Counted(v, settlement, ownerPayouts, closings)
    BY <2>1, SettleIdleSound DEF Counted
  <2> QED BY <1>5, <1>7, <2>1, <2>2 DEF Free
<1>10. /\ Paid(settlement, ownerPayouts)'
       /\ (order.settled => settlement.status \in Done)'
       /\ (\A d \in Disputes : Whole(disputes[d]))'
  BY <1>1 DEF SettleIInv
<1> QED BY <1>1, <1>4, <1>6, <1>8, <1>9, <1>10 DEF SettleIInv

\* The operation p goes on with v, and may save rows.
LEMMA SettleStepKeeps ==
    ASSUME SettleIInv, NEW p \in Processes, ~Free(p), NEW v \in SettleRequest,
           req' = [req EXCEPT ![p] = v],
           order' \in OrderRow, settlement' \in SettlementRow,
           ownerPayouts' \in Nat, closings' \in Nat,
           disputes' \in [Disputes -> DisputeRow],
           stops' \in 0..MaxDisturbed, UNCHANGED overlaps,
           ownerPayouts' >= ownerPayouts,
           settlement.status \in Done => settlement'.status \in Done,
           Paid(settlement', ownerPayouts'),
           order'.settled => settlement'.status \in Done,
           \A d \in Disputes : Whole(disputes'[d]),
           SettleOpSound(v), MoneySound(v, settlement', ownerPayouts'),
           overlaps = 0 => SettleCurrent(v, settlement', disputes'),
           overlaps = 0 /\ stops' = 0
             => Counted(v, settlement', ownerPayouts', closings')
    PROVE  SettleIInv'
<1>1. req' \in [Processes -> SettleRequest]
  BY DEF SettleIInv, SettlementTypeOK, SettleRequest
<1>2. SettlementTypeOK'
  BY <1>1 DEF SettleIInv, SettlementTypeOK, SettleRequest
<1>3. req'[p] = v /\ \A q \in Processes \ {p} : req'[q] = req[q]
  BY DEF SettleIInv, SettlementTypeOK
<1>4. \A q \in Processes : SettleOpSound(req'[q])
  BY <1>3 DEF SettleIInv
<1>5. \A q \in Processes : MoneySound(req'[q], settlement', ownerPayouts')
  <2>1. ownerPayouts \in Nat
    BY DEF SettleIInv, SettlementTypeOK
  <2> QED BY <1>3, <2>1 DEF SettleIInv, MoneySound
<1>6. ASSUME overlaps = 0 PROVE \A q \in Processes \ {p} : req'[q] = Idle
  BY <1>3, <1>6 DEF SettleIInv, SettleSerial, SettleAlone, Free
<1>7. SettleSerial'
  BY <1>3, <1>6, SettleIdleSound DEF SettleSerial, SettleAlone, Free
<1>8. Ledger'
  <2> SUFFICES ASSUME overlaps = 0, stops' = 0,
                      NEW q \in Processes, SettleAlone(q)'
               PROVE  Counted(req'[q], settlement', ownerPayouts', closings')
    BY DEF Ledger
  <2>1. CASE q = p
    BY <1>3, <2>1
  <2>2. CASE q # p
    <3>1. v = Idle /\ req'[q] = Idle
      BY <1>3, <1>6, <2>2 DEF SettleAlone, Free
    <3> QED BY <3>1
  <2> QED BY <2>1, <2>2
<1> QED BY <1>2, <1>4, <1>5, <1>7, <1>8 DEF SettleIInv

\* What an operation in hand holds.
LEMMA SettleHeld ==
    ASSUME SettleIInv, NEW p \in Processes
    PROVE  /\ req[p] \in SettleRequest /\ SettleOpSound(req[p])
           /\ MoneySound(req[p], settlement, ownerPayouts)
           /\ order \in OrderRow /\ settlement \in SettlementRow
           /\ Paid(settlement, ownerPayouts)
           /\ order.settled => settlement.status \in Done
           /\ ownerPayouts \in Nat /\ closings \in Nat
           /\ disputes \in [Disputes -> DisputeRow]
           /\ \A d \in Disputes : Whole(disputes[d])
           /\ stops \in 0..MaxDisturbed
           /\ req[p].at # "idle" => ~Free(p)
           /\ overlaps = 0 => SettleCurrent(req[p], settlement, disputes)
           /\ overlaps = 0 /\ stops = 0 /\ req[p].at # "idle"
                => Counted(req[p], settlement, ownerPayouts, closings)
<1>1. req[p].at # "idle" => ~Free(p)
  BY DEF Free, Idle
<1> QED BY <1>1 DEF SettleIInv, SettlementTypeOK, SettleRequest, SettleSerial, Ledger

-----------------------------------------------------------------------------
(* The steps that leave the settlement and the disputes alone: p goes on   *)
(* with v, which holds no copy of a settlement.                            *)

LEMMA SettleLeaveKeeps ==
    ASSUME SettleIInv, NEW p \in Processes, req[p].at # "idle",
           req[p].at # "settle", NEW v \in SettleRequest,
           req' = [req EXCEPT ![p] = v],
           v.at \notin {"pay", "settle", "close"},
           SettleOpSound(v), MoneySound(v, settlement, ownerPayouts),
           SettleCurrent(v, settlement, disputes),
           order' \in OrderRow, order'.settled => settlement.status \in Done,
           UNCHANGED <<money, disputes, stops, overlaps>>
    PROVE  SettleIInv'
<1>1. UNCHANGED <<settlement, ownerPayouts, closings, disputes, stops, overlaps>>
  BY DEF money
<1>2. ~Ahead(v) /\ ~Ahead(req[p])
  BY DEF Ahead
<1>3. overlaps = 0 /\ stops = 0 => Counted(v, settlement, ownerPayouts, closings)
  BY <1>2, SettleHeld DEF Counted
<1>4. ownerPayouts >= ownerPayouts
  BY DEF SettleIInv, SettlementTypeOK
<1> QED BY <1>1, <1>3, <1>4, SettleHeld, SettleStepKeeps

LEMMA TriggerKeeps ==
    ASSUME SettleIInv, NEW p \in Processes,
           StartTrigger(p) \/ StartOrderSave(p) \/ LoadOrder(p) \/ SaveOrder(p)
    PROVE  SettleIInv'
<1>1. CASE StartTrigger(p)
  <2> DEFINE v == [Idle EXCEPT !.at = "trigger"]
  <2>1. /\ v \in SettleRequest /\ v.at = "trigger" /\ v.order = NewOrder
        /\ v.dispute = NewDispute
    BY SettleIdleSound DEF SettleRequest, Steps, Idle
  <2>2. SettleOpSound(v) /\ SettleCurrent(v, settlement, disputes) /\ ~Ahead(v)
    BY <2>1, SettleIdleSound DEF SettleOpSound, SettleCurrent, Ahead, DisputeSteps
  <2>3. MoneySound(v, settlement, ownerPayouts)
    BY <2>1, SettleIdleSound DEF MoneySound
  <2> QED BY <1>1, <2>1, <2>2, <2>3, SettleBeginKeeps DEF StartTrigger
<1>2. CASE StartOrderSave(p)
  <2> DEFINE v == [Idle EXCEPT !.at = "save", !.order = order]
  <2>1. /\ v \in SettleRequest /\ v.at = "save" /\ v.order = order
        /\ v.dispute = NewDispute
    BY SettleIdleSound, SettleHeld DEF SettleRequest, Steps, Idle
  <2>2. SettleOpSound(v) /\ SettleCurrent(v, settlement, disputes) /\ ~Ahead(v)
    BY <2>1, SettleIdleSound DEF SettleOpSound, SettleCurrent, Ahead, DisputeSteps
  <2>3. MoneySound(v, settlement, ownerPayouts)
    BY <2>1, SettleHeld DEF MoneySound
  <2> QED BY <1>2, <2>1, <2>2, <2>3, SettleBeginKeeps DEF StartOrderSave
<1>3. CASE LoadOrder(p)
  <2> DEFINE v == [Idle EXCEPT !.at = "mark", !.order = order]
  <2>1. /\ v \in SettleRequest /\ v.at = "mark" /\ v.order = order
        /\ v.dispute = NewDispute
    BY SettleIdleSound, SettleHeld DEF SettleRequest, Steps, Idle
  <2>2. SettleOpSound(v) /\ SettleCurrent(v, settlement, disputes)
    BY <2>1, SettleIdleSound DEF SettleOpSound, SettleCurrent, DisputeSteps
  <2>3. req[p].at = "load" /\ MoneySound(v, settlement, ownerPayouts)
    BY <1>3, <2>1, SettleHeld DEF LoadOrder, At, MoneySound
  <2>4. /\ req' = [req EXCEPT ![p] = v]
        /\ UNCHANGED <<order, money, disputes, stops, overlaps>>
    BY <1>3 DEF LoadOrder, Load, rows
  <2> QED BY <2>1, <2>2, <2>3, <2>4, SettleHeld, SettleLeaveKeeps
<1>4. CASE SaveOrder(p)
  <2>1. /\ req[p].at \in {"mark", "save"}
        /\ req' = [req EXCEPT ![p] = Idle]
        /\ UNCHANGED <<money, disputes, stops, overlaps>>
    BY <1>4 DEF SaveOrder, At, Finish, Load
  <2>2. /\ req[p].order \in OrderRow
        /\ req[p].order.settled \/ At(p, "mark") => settlement.status \in Done
    BY SettleHeld DEF SettleRequest, MoneySound, At
  <2>3. order' \in OrderRow /\ (order'.settled => settlement.status \in Done)
    BY <1>4, <2>2 DEF SaveOrder, OrderRow
  <2>4. Idle.at \notin {"pay", "settle", "close"}
    BY DEF Idle
  <2> QED BY <2>1, <2>3, <2>4, SettleIdleSound, SettleLeaveKeeps
<1> QED BY <1>1, <1>2, <1>3, <1>4

LEMMA SettleInsertKeeps ==
    ASSUME SettleIInv, NEW p \in Processes, InsertSettlement(p)
    PROVE  SettleIInv'
<1>1. /\ req[p].at = "trigger" /\ req' = [req EXCEPT ![p] = Idle]
      /\ UNCHANGED <<order, ownerPayouts, closings, disputes, stops, overlaps>>
  BY DEF InsertSettlement, At, Finish, Load
<1>2. CASE settlement.status # "none"
  <2>1. UNCHANGED money
    BY <1>1, <1>2 DEF InsertSettlement, money
  <2>2. Idle.at \notin {"pay", "settle", "close"}
    BY DEF Idle
  <2> QED BY <1>1, <2>1, <2>2, SettleHeld, SettleIdleSound, SettleLeaveKeeps
<1>3. CASE settlement.status = "none"
  <2>1. PICK b \in BOOLEAN : settlement' = [status |-> "pending", payable |-> b]
    BY <1>3 DEF InsertSettlement
  <2>2. settlement' \in SettlementRow /\ settlement'.status = "pending"
    BY <2>1 DEF SettlementRow, SettlementStatuses
  <2>3. settlement.status \notin Done /\ settlement'.status \notin Done
    BY <1>3, <2>2 DEF Done
  <2>4. Paid(settlement', ownerPayouts') /\ ~order'.settled
    BY <1>1, <2>3, SettleHeld DEF Paid
  <2>5. overlaps = 0 /\ stops' = 0
          => Counted(Idle, settlement', ownerPayouts', closings')
    <3> SUFFICES ASSUME overlaps = 0, stops = 0
                 PROVE  Counted(Idle, settlement', ownerPayouts, closings)
      BY <1>1
    <3>1. Counted(req[p], settlement, ownerPayouts, closings)
      BY <1>1, SettleHeld
    <3>2. ownerPayouts = 0 /\ closings = 0
      BY <1>1, <1>3, <3>1, SettleHeld
      DEF Counted, Ahead, Owed, SettlementRow
    <3> QED BY <2>2, <3>2, SettleIdleSound DEF Counted, Owed
  <2>6. ownerPayouts' >= ownerPayouts
    BY <1>1, SettleHeld
  <2> QED BY <1>1, <2>2, <2>3, <2>4, <2>5, <2>6, SettleHeld, SettleIdleSound, SettleStepKeeps
<1> QED BY <1>2, <1>3

-----------------------------------------------------------------------------
(* The write-back: pay, then "settled", then the mark on the order         *)

LEMMA StartWritebackKeeps ==
    ASSUME SettleIInv, NEW p \in Processes, StartWriteback(p)
    PROVE  SettleIInv'
<1> DEFINE step == IF FirstWriteback(settlement) THEN "pay" ELSE "settle"
           v == [Idle EXCEPT !.settlement = settlement, !.at = step]
<1>1. /\ v \in SettleRequest /\ v.at = step /\ v.settlement = settlement
      /\ v.order = NewOrder /\ v.dispute = NewDispute
  BY SettleIdleSound, SettleHeld DEF SettleRequest, Steps, Idle
<1>2. SettleOpSound(v) /\ SettleCurrent(v, settlement, disputes)
  BY <1>1, SettleIdleSound DEF SettleOpSound, SettleCurrent, DisputeSteps
<1>3. v.at = "settle" /\ settlement.payable => settlement.status = "settled"
  BY <1>1 DEF FirstWriteback
<1>4. MoneySound(v, settlement, ownerPayouts)
  BY <1>1, <1>3, SettleIdleSound, SettleHeld DEF MoneySound, Paid, Done
<1>5. Ahead(v) => ~settlement.payable
  BY <1>1, <1>3 DEF Ahead
<1> QED BY <1>1, <1>2, <1>4, <1>5, SettleBeginKeeps DEF StartWriteback

LEMMA PayoutKeeps ==
    ASSUME SettleIInv, NEW p \in Processes, Payout(p)
    PROVE  SettleIInv'
<1> DEFINE v == [req[p] EXCEPT !.at = "settle"]
<1>1. /\ req[p].at = "pay" /\ ownerPayouts' = ownerPayouts + 1
      /\ UNCHANGED <<order, settlement, closings, disputes, stops, overlaps>>
  BY DEF Payout, At
<1>2. req' = [req EXCEPT ![p] = v]
  BY DEF Payout, SettleIInv, SettlementTypeOK
<1>3. /\ v \in SettleRequest /\ v.at = "settle"
      /\ v.settlement = req[p].settlement /\ v.order = req[p].order
      /\ v.dispute = req[p].dispute
  BY SettleHeld DEF SettleRequest, Steps
<1>4. SettleOpSound(v)
  BY <1>3, SettleHeld DEF SettleOpSound, DisputeSteps
<1>5. ownerPayouts' \in Nat /\ ownerPayouts' >= ownerPayouts /\ ownerPayouts' >= 1
  BY <1>1, SettleHeld
<1>6. MoneySound(v, settlement', ownerPayouts')
  BY <1>1, <1>3, <1>5, SettleHeld DEF MoneySound
<1>7. Paid(settlement', ownerPayouts')
  BY <1>5 DEF Paid
<1>8. ASSUME overlaps = 0
      PROVE  v.settlement = settlement /\ SettleCurrent(v, settlement', disputes')
  BY <1>1, <1>3, <1>8, SettleHeld DEF SettleCurrent, DisputeSteps
<1>9. ASSUME overlaps = 0, stops' = 0
      PROVE  Counted(v, settlement', ownerPayouts', closings')
  <2>1. Counted(req[p], settlement, ownerPayouts, closings) /\ ~Ahead(req[p])
    BY <1>1, <1>9, SettleHeld DEF Ahead
  <2>2. settlement.payable /\ settlement.status # "settled"
    BY <1>1, <1>3, <1>8, <1>9, SettleHeld DEF SettleOpSound, FirstWriteback
  <2>3. Ahead(v)
    BY <1>3, <1>8, <1>9, <2>2 DEF Ahead
  <2> QED BY <1>1, <2>1, <2>2, <2>3 DEF Counted
<1> QED BY <1>1, <1>2, <1>3, <1>4, <1>5, <1>6, <1>7, <1>8, <1>9, SettleHeld,
        SettleStepKeeps

LEMMA SaveSettledKeeps ==
    ASSUME SettleIInv, NEW p \in Processes, SaveSettled(p)
    PROVE  SettleIInv'
<1> DEFINE v == [Idle EXCEPT !.at = "load"]
           row == req[p].settlement
<1>1. /\ req[p].at = "settle" /\ settlement' = Settled(row)
      /\ req' = [req EXCEPT ![p] = v]
      /\ UNCHANGED <<order, ownerPayouts, closings, disputes, stops, overlaps>>
  BY DEF SaveSettled, At, Goto, Load
<1>2. /\ v \in SettleRequest /\ v.at = "load" /\ v.order = NewOrder
      /\ v.dispute = NewDispute
  BY SettleIdleSound DEF SettleRequest, Steps, Idle
<1>3. SettleOpSound(v) /\ \A s, d : SettleCurrent(v, s, d)
  BY <1>2, SettleIdleSound DEF SettleOpSound, SettleCurrent, DisputeSteps
<1>4. row \in SettlementRow
  BY SettleHeld DEF SettleRequest
<1>5. /\ settlement' \in SettlementRow /\ settlement'.status = "settled"
      /\ settlement'.payable = row.payable
  BY <1>1, <1>4 DEF Settled, SettlementRow, SettlementStatuses
<1>6. /\ settlement'.status \in Done /\ Paid(settlement', ownerPayouts')
      /\ MoneySound(v, settlement', ownerPayouts')
  BY <1>1, <1>2, <1>5, SettleHeld DEF Done, Paid, MoneySound
<1>7. ASSUME overlaps = 0, stops' = 0
      PROVE  Counted(v, settlement', ownerPayouts', closings')
  <2>1. row = settlement /\ Counted(req[p], settlement, ownerPayouts, closings)
    BY <1>1, <1>7, SettleHeld DEF SettleCurrent
  <2>2. ownerPayouts = IF row.payable THEN closings + 1 ELSE 0
    <3>1. CASE row.payable /\ row.status # "settled"
      <4>1. row.status = "appeal_closed" \/ closings = 0
        BY <1>4, <2>1, <3>1 DEF Counted, SettlementRow, SettlementStatuses
      <4> QED BY <1>1, <1>4, <2>1, <3>1, <4>1, SettleHeld
              DEF Counted, Ahead, Owed, SettlementRow, SettlementStatuses
    <3>2. CASE row.payable /\ row.status = "settled"
      BY <2>1, <3>2 DEF Counted, Ahead, Owed
    <3>3. CASE ~row.payable
      BY <2>1, <3>3 DEF Counted
    <3> QED BY <3>1, <3>2, <3>3
  <2>3. ~Ahead(v)
    BY <1>2 DEF Ahead
  <2> QED BY <1>1, <1>5, <2>2, <2>3 DEF Counted, Owed
<1>8. ownerPayouts' >= ownerPayouts
  BY <1>1, SettleHeld
<1> QED BY <1>1, <1>2, <1>3, <1>5, <1>6, <1>7, <1>8, SettleHeld, SettleStepKeeps

-----------------------------------------------------------------------------
(* The scan closes the period of appeal                                    *)

LEMMA LoadSettlementKeeps ==
    ASSUME SettleIInv, NEW p \in Processes, LoadSettlement(p)
    PROVE  SettleIInv'
<1>1. /\ req[p].at = "appeal"
      /\ UNCHANGED <<order, settlement, ownerPayouts, closings, disputes>>
      /\ UNCHANGED <<stops, overlaps>>
  BY DEF LoadSettlement, At, rows, money
<1>2. settlement.status \in Done
  BY <1>1, SettleHeld DEF MoneySound
<1>3. CASE settlement.status = "appeal_closed"
  <2> DEFINE v == [Idle EXCEPT !.at = "list"]
  <2>1. req' = [req EXCEPT ![p] = v]
    BY <1>3 DEF LoadSettlement, Goto, Load
  <2>2. /\ v \in SettleRequest /\ v.at = "list" /\ v.order = NewOrder
        /\ v.dispute = NewDispute
    BY SettleIdleSound DEF SettleRequest, Steps, Idle
  <2>3. /\ SettleOpSound(v) /\ SettleCurrent(v, settlement, disputes)
        /\ MoneySound(v, settlement, ownerPayouts)
    BY <2>2, SettleIdleSound DEF SettleOpSound, SettleCurrent, DisputeSteps, MoneySound
  <2> QED BY <1>1, <2>1, <2>2, <2>3, SettleHeld, SettleLeaveKeeps DEF money
<1>4. CASE settlement.status # "appeal_closed"
  <2> DEFINE v == [Idle EXCEPT !.at = "close", !.settlement = settlement]
  <2>1. req' = [req EXCEPT ![p] = v]
    BY <1>4 DEF LoadSettlement, Load
  <2>2. /\ v \in SettleRequest /\ v.at = "close" /\ v.settlement = settlement
        /\ v.order = NewOrder /\ v.dispute = NewDispute
    BY SettleIdleSound, SettleHeld DEF SettleRequest, Steps, Idle
  <2>3. SettleOpSound(v) /\ SettleCurrent(v, settlement, disputes)
    BY <1>2, <1>4, <2>2, SettleIdleSound DEF SettleOpSound, SettleCurrent, DisputeSteps, Done
  <2>4. MoneySound(v, settlement, ownerPayouts)
    BY <1>2, <2>2, SettleIdleSound, SettleHeld DEF MoneySound, Paid
  <2>5. ~Ahead(v) /\ ~Ahead(req[p])
    BY <1>1, <2>2 DEF Ahead
  <2>6. overlaps = 0 /\ stops = 0
          => Counted(v, settlement, ownerPayouts, closings)
    BY <1>1, <2>5, SettleHeld DEF Counted
  <2>7. ownerPayouts' >= ownerPayouts
    BY <1>1, SettleHeld
  <2> QED BY <1>1, <2>1, <2>2, <2>3, <2>4, <2>6, <2>7, SettleHeld, SettleStepKeeps
<1> QED BY <1>3, <1>4

LEMMA SaveClosedKeeps ==
    ASSUME SettleIInv, NEW p \in Processes, SaveClosed(p)
    PROVE  SettleIInv'
<1> DEFINE v == [Idle EXCEPT !.at = "list"]
           row == req[p].settlement
<1>1. /\ req[p].at = "close" /\ closings' = closings + 1
      /\ settlement' = [row EXCEPT !.status = "appeal_closed"]
      /\ req' = [req EXCEPT ![p] = v]
      /\ UNCHANGED <<order, ownerPayouts, disputes, stops, overlaps>>
  BY DEF SaveClosed, At, Goto, Load
<1>2. /\ v \in SettleRequest /\ v.at = "list" /\ v.order = NewOrder
      /\ v.dispute = NewDispute
  BY SettleIdleSound DEF SettleRequest, Steps, Idle
<1>3. SettleOpSound(v) /\ \A s, d : SettleCurrent(v, s, d)
  BY <1>2, SettleIdleSound DEF SettleOpSound, SettleCurrent, DisputeSteps
<1>4. row \in SettlementRow /\ row.status = "settled"
  BY <1>1, SettleHeld DEF SettleRequest, SettleOpSound
<1>5. /\ settlement' \in SettlementRow
      /\ settlement'.status = "appeal_closed"
      /\ settlement'.payable = row.payable
  BY <1>1, <1>4 DEF SettlementRow, SettlementStatuses
<1>6. /\ settlement'.status \in Done /\ Paid(settlement', ownerPayouts')
      /\ MoneySound(v, settlement', ownerPayouts')
  BY <1>1, <1>2, <1>5, SettleIdleSound, SettleHeld DEF Done, Paid, MoneySound
<1>7. ASSUME overlaps = 0, stops' = 0
      PROVE  Counted(v, settlement', ownerPayouts', closings')
  <2>1. row = settlement /\ Counted(req[p], settlement, ownerPayouts, closings)
    BY <1>1, <1>7, SettleHeld DEF SettleCurrent
  <2>2. ownerPayouts = IF row.payable THEN closings + 1 ELSE 0
    BY <1>1, <1>4, <2>1 DEF Counted, Ahead, Owed, SettlementRow
  <2>3. ~Ahead(v)
    BY <1>2 DEF Ahead
  <2> QED BY <1>1, <1>5, <2>2, <2>3 DEF Counted, Owed
<1>8. ownerPayouts' >= ownerPayouts /\ closings' \in Nat
  BY <1>1, SettleHeld
<1> QED BY <1>1, <1>2, <1>3, <1>5, <1>6, <1>7, <1>8, SettleHeld, SettleStepKeeps

LEMMA StartScanKeeps ==
    ASSUME SettleIInv, StartScan
    PROVE  SettleIInv'
<1> DEFINE step == IF AppealDue THEN "appeal" ELSE "list"
           v == [Idle EXCEPT !.at = step]
<1>1. /\ v \in SettleRequest /\ v.at = step /\ v.order = NewOrder
      /\ v.dispute = NewDispute
  BY SettleIdleSound DEF SettleRequest, Steps, Idle
<1>2. SettleOpSound(v) /\ SettleCurrent(v, settlement, disputes) /\ ~Ahead(v)
  BY <1>1, SettleIdleSound DEF SettleOpSound, SettleCurrent, DisputeSteps, Ahead
<1>3. AppealDue => settlement.status \in Done
  BY DEF SettleIInv, AppealDue
<1>4. MoneySound(v, settlement, ownerPayouts)
  BY <1>1, <1>3, SettleIdleSound DEF MoneySound
<1>5. Scanner \in Processes
  BY DEF Processes
<1> QED BY <1>1, <1>2, <1>4, <1>5, SettleBeginKeeps DEF StartScan

-----------------------------------------------------------------------------
(* The disputes                                                            *)

LEMMA AcceptingShape ==
    \A step \in DisputeSteps :
      Accepting(step) \subseteq DisputeStatuses \ {"none"}
BY DEF DisputeSteps, Accepting, DisputeStatuses

\* A decision keeps status and resolution together, and moves forward.
LEMMA DecisionShape ==
    ASSUME NEW row \in DisputeRow, NEW step \in DisputeSteps,
           row.status \in Accepting(step), Whole(row)
    PROVE  /\ Decided(row, step) \in DisputeRow /\ Whole(Decided(row, step))
           /\ Order(row.status) <= Order(Decided(row, step).status)
           /\ row.evidence => Decided(row, step).evidence
<1>1. CASE step = "evidence"
  <2> DEFINE new == [row EXCEPT !.evidence = TRUE]
  <2>1. Decided(row, step) = new
    BY <1>1 DEF Decided
  <2>2. /\ new \in DisputeRow /\ new.status = row.status
        /\ new.resolution = row.resolution /\ new.evidence
    BY DEF DisputeRow
  <2>3. row.status \in {"evidence_open", "arbitrating"}
    BY <1>1 DEF Accepting
  <2>4. Whole(new)
    BY <2>2, Zenon DEF Whole
  <2> HIDE DEF new
  <2> QED BY <2>1, <2>2, <2>3, <2>4 DEF Order
<1>2. CASE step = "arbitrate"
  BY <1>2 DEF Decided, DisputeRow, DisputeStatuses, Accepting, Whole, Order
<1>3. CASE step = "resolve"
  <2> DEFINE new == [row EXCEPT !.status = "resolved", !.resolution = TRUE]
  <2>1. Decided(row, step) = new
    BY <1>3, Zenon DEF Decided
  <2>2. /\ new \in DisputeRow /\ new.status = "resolved"
        /\ new.resolution /\ new.evidence = row.evidence
    BY DEF DisputeRow, DisputeStatuses
  <2>3. row.status = "arbitrating"
    BY <1>3 DEF Accepting
  <2>4. Whole(new)
    BY <2>2 DEF Whole
  <2> HIDE DEF new
  <2> QED BY <2>1, <2>2, <2>3, <2>4 DEF Order
<1>4. CASE step = "acknowledge"
  BY <1>4 DEF Decided, DisputeRow, DisputeStatuses, Accepting, Whole, Order
<1> QED BY <1>1, <1>2, <1>3, <1>4 DEF DisputeSteps

LEMMA RaiseKeeps ==
    ASSUME SettleIInv, NEW d \in Disputes, RaiseDispute(d)
    PROVE  SettleIInv'
<1>1. /\ disputes[d].status = "none"
      /\ disputes' = [disputes EXCEPT ![d].status = "evidence_open"]
      /\ UNCHANGED <<order, settlement, ownerPayouts, closings, req>>
      /\ UNCHANGED <<stops, overlaps>>
  BY DEF RaiseDispute, money
<1>2. /\ disputes \in [Disputes -> DisputeRow]
      /\ \A e \in Disputes : Whole(disputes[e])
  BY DEF SettleIInv, SettlementTypeOK
<1>3. disputes' \in [Disputes -> DisputeRow]
  BY <1>1, <1>2 DEF DisputeRow, DisputeStatuses
<1>4. \A e \in Disputes : Whole(disputes'[e])
  BY <1>1, <1>2 DEF Whole, DisputeRow
<1>5. SettlementTypeOK'
  BY <1>1, <1>3 DEF SettleIInv, SettlementTypeOK
<1>6. SettleSerial'
  <2> SUFFICES ASSUME overlaps = 0, NEW p \in Processes
               PROVE  /\ ~Free(p) => SettleAlone(p)
                      /\ SettleCurrent(req[p], settlement, disputes')
    BY <1>1 DEF SettleSerial, Free, SettleAlone
  <2>1. /\ ~Free(p) => SettleAlone(p)
        /\ SettleCurrent(req[p], settlement, disputes)
    BY DEF SettleIInv, SettleSerial
  <2>2. ASSUME req[p].at \in DisputeSteps
        PROVE  disputes'[req[p].id] = disputes[req[p].id]
    <3>1. req[p].id \in Disputes /\ disputes[req[p].id].status # "none"
      BY <2>1, <2>2, AcceptingShape DEF SettleIInv, SettleOpSound, SettleCurrent
    <3> QED BY <1>1, <1>2, <3>1
  <2> QED BY <2>1, <2>2 DEF SettleCurrent
<1>7. Ledger'
  BY <1>1 DEF SettleIInv, Ledger, SettleAlone, Free
<1>8. /\ Paid(settlement, ownerPayouts)'
      /\ (order.settled => settlement.status \in Done)'
      /\ (\A p \in Processes : SettleOpSound(req[p]))'
      /\ (\A p \in Processes : MoneySound(req[p], settlement, ownerPayouts))'
  BY <1>1 DEF SettleIInv
<1> QED BY <1>4, <1>5, <1>6, <1>7, <1>8 DEF SettleIInv

LEMMA StartDisputeKeeps ==
    ASSUME SettleIInv, NEW p \in Processes, NEW d \in Disputes,
           NEW step \in DisputeSteps, StartDispute(p, d, step)
    PROVE  SettleIInv'
<1> DEFINE v == [Idle EXCEPT !.at = step, !.id = d, !.dispute = disputes[d]]
<1>1. /\ v \in SettleRequest /\ v.at = step /\ v.id = d /\ v.dispute = disputes[d]
      /\ v.order = NewOrder
  BY SettleIdleSound, SettleHeld DEF SettleRequest, Steps, Idle
<1>2. step \notin {"pay", "settle", "close", "load", "mark", "appeal"}
  BY DEF DisputeSteps
<1>3. SettleOpSound(v) /\ SettleCurrent(v, settlement, disputes) /\ ~Ahead(v)
  BY <1>1, <1>2, SettleHeld DEF SettleOpSound, SettleCurrent, Ahead, StartDispute
<1>4. MoneySound(v, settlement, ownerPayouts)
  BY <1>1, <1>2, SettleIdleSound DEF MoneySound
<1> QED BY <1>1, <1>3, <1>4, SettleBeginKeeps DEF StartDispute

LEMMA SaveDisputeKeeps ==
    ASSUME SettleIInv, NEW p \in Processes, SaveDispute(p)
    PROVE  SettleIInv'
<1> DEFINE step == req[p].at
           row == req[p].dispute
           v == IF p = Scanner
                THEN [Idle EXCEPT !.at = "next", !.list = req[p].list]
                ELSE Idle
<1>1. /\ step \in DisputeSteps
      /\ disputes' = [disputes EXCEPT ![req[p].id] = Decided(row, step)]
      /\ req' = [req EXCEPT ![p] = v]
      /\ UNCHANGED <<order, settlement, ownerPayouts, closings, stops, overlaps>>
  BY DEF SaveDispute, Finish, Load, money
<1>2. /\ row \in DisputeRow /\ Whole(row) /\ req[p].id \in Disputes
      /\ row.status \in Accepting(step)
  BY <1>1, SettleHeld DEF SettleRequest, SettleOpSound
<1>3. Decided(row, step) \in DisputeRow /\ Whole(Decided(row, step))
  BY <1>1, <1>2, DecisionShape
<1>4. disputes' \in [Disputes -> DisputeRow]
  BY <1>1, <1>3, SettleHeld
<1>5. \A d \in Disputes : Whole(disputes'[d])
  BY <1>1, <1>3, SettleHeld
<1>6. /\ v \in SettleRequest /\ v.at \in {"next", "idle"} /\ v.order = NewOrder
      /\ v.dispute = NewDispute
  BY SettleIdleSound, SettleHeld DEF SettleRequest, Steps, Idle
<1>7. /\ SettleOpSound(v) /\ SettleCurrent(v, settlement, disputes') /\ ~Ahead(v)
      /\ MoneySound(v, settlement, ownerPayouts)
  BY <1>6, SettleIdleSound DEF SettleOpSound, SettleCurrent, DisputeSteps, MoneySound, Ahead
<1>8. step # "idle" /\ ~Ahead(req[p])
  BY <1>1 DEF DisputeSteps, Ahead
<1>9. overlaps = 0 /\ stops = 0 => Counted(v, settlement, ownerPayouts, closings)
  BY <1>7, <1>8, SettleHeld DEF Counted
<1>10. ownerPayouts' >= ownerPayouts
  BY <1>1, SettleHeld
<1> QED BY <1>1, <1>4, <1>5, <1>6, <1>7, <1>8, <1>9, <1>10, SettleHeld, SettleStepKeeps

LEMMA ListKeeps ==
    ASSUME SettleIInv, NEW p \in Processes, ListDisputes(p)
    PROVE  SettleIInv'
<1> DEFINE v == [Idle EXCEPT !.at = "next", !.list = EvidenceDue]
<1>1. /\ req[p].at = "list" /\ req' = [req EXCEPT ![p] = v]
      /\ UNCHANGED <<order, money, disputes, stops, overlaps>>
  BY DEF ListDisputes, At, Load, rows
<1>2. EvidenceDue \in SUBSET Disputes
  BY DEF EvidenceDue, Open
<1>3. /\ v \in SettleRequest /\ v.at = "next" /\ v.order = NewOrder
      /\ v.dispute = NewDispute
  BY <1>2, SettleIdleSound DEF SettleRequest, Steps, Idle
<1>4. /\ SettleOpSound(v) /\ SettleCurrent(v, settlement, disputes)
      /\ MoneySound(v, settlement, ownerPayouts)
  BY <1>3, SettleIdleSound DEF SettleOpSound, SettleCurrent, DisputeSteps, MoneySound
<1> QED BY <1>1, <1>3, <1>4, SettleHeld, SettleLeaveKeeps

LEMMA NextDisputeKeeps ==
    ASSUME SettleIInv, NEW p \in Processes, NextDispute(p)
    PROVE  SettleIInv'
<1>1. /\ req[p].at = "next"
      /\ UNCHANGED <<order, money, disputes, stops, overlaps>>
  BY DEF NextDispute, At, rows
<1>2. CASE Finish(p)
  <2>1. Idle.at \notin {"pay", "settle", "close"}
    BY DEF Idle
  <2> QED BY <1>1, <1>2, <2>1, SettleHeld, SettleIdleSound, SettleLeaveKeeps DEF Finish, Load
<1>3. CASE ~Finish(p)
  <2>1. PICK d \in req[p].list :
          /\ d \in Open("evidence_open")
          /\ Load(p, [Idle EXCEPT !.at = "arbitrate", !.id = d,
                        !.dispute = disputes[d],
                        !.list = req[p].list \ {d}])
    BY <1>3 DEF NextDispute
  <2> DEFINE v == [Idle EXCEPT !.at = "arbitrate", !.id = d,
                     !.dispute = disputes[d], !.list = req[p].list \ {d}]
  <2>2. d \in Disputes /\ disputes[d].status = "evidence_open"
    BY <2>1 DEF Open
  <2>3. /\ v \in SettleRequest /\ v.at = "arbitrate" /\ v.id = d
        /\ v.dispute = disputes[d] /\ v.order = NewOrder
    BY <2>2, SettleIdleSound, SettleHeld DEF SettleRequest, Steps, DisputeSteps, Idle
  <2>4. SettleOpSound(v) /\ SettleCurrent(v, settlement, disputes)
    BY <2>2, <2>3, SettleHeld DEF SettleOpSound, SettleCurrent, Accepting
  <2>5. MoneySound(v, settlement, ownerPayouts)
    BY <2>3, SettleIdleSound DEF MoneySound
  <2> QED BY <1>1, <2>1, <2>3, <2>4, <2>5, SettleHeld, SettleLeaveKeeps DEF Load
<1> QED BY <1>2, <1>3

LEMMA SettleStopKeeps ==
    ASSUME SettleIInv, NEW p \in Processes, Stop(p)
    PROVE  SettleIInv'
<1>1. /\ ~Free(p) /\ req' = [req EXCEPT ![p] = Idle] /\ stops' = stops + 1
      /\ UNCHANGED <<order, settlement, ownerPayouts, closings, disputes, overlaps>>
  BY DEF Stop, Finish, Load, rows, money
<1>2. stops' \in 0..MaxDisturbed /\ stops' # 0
  BY BoundAssumption DEF Stop, SettleIInv, SettlementTypeOK
<1>3. ownerPayouts' >= ownerPayouts
  BY <1>1, SettleHeld
<1> QED BY <1>1, <1>2, <1>3, SettleHeld, SettleIdleSound, SettleStepKeeps

-----------------------------------------------------------------------------
LEMMA SettleNextKeeps == SettleIInv /\ [SettlementNext]_settlementVars => SettleIInv'
<1> SUFFICES ASSUME SettleIInv, [SettlementNext]_settlementVars PROVE SettleIInv' OBVIOUS
<1>1. CASE StartScan
  BY <1>1, StartScanKeeps
<1>2. ASSUME NEW d \in Disputes, RaiseDispute(d) PROVE SettleIInv'
  BY <1>2, RaiseKeeps
<1>3. ASSUME NEW p \in Processes,
             \/ StartTrigger(p) \/ StartWriteback(p) \/ StartOrderSave(p)
             \/ \E d \in Disputes, step \in DisputeSteps :
                  StartDispute(p, d, step)
      PROVE  SettleIInv'
  BY <1>3, TriggerKeeps, StartWritebackKeeps, StartDisputeKeeps
<1>4. ASSUME NEW p \in Processes, Continue(p) PROVE SettleIInv'
  BY <1>4, SettleInsertKeeps, PayoutKeeps, SaveSettledKeeps, TriggerKeeps,
     SaveDisputeKeeps, LoadSettlementKeeps, SaveClosedKeeps, ListKeeps,
     NextDisputeKeeps
  DEF Continue
<1>5. ASSUME NEW p \in Processes, Stop(p) PROVE SettleIInv'
  BY <1>5, SettleStopKeeps
<1>6. CASE UNCHANGED settlementVars
  <2>1. UNCHANGED <<order, settlement, ownerPayouts, closings, disputes, req, stops,
                    overlaps>>
    BY <1>6 DEF settlementVars
  <2>2. SettlementTypeOK' /\ SettleSerial' /\ Ledger'
    BY <2>1 DEF SettleIInv, SettlementTypeOK, SettleSerial, Ledger, SettleAlone, Free
  <2> QED BY <2>1, <2>2 DEF SettleIInv
<1> QED BY <1>1, <1>2, <1>3, <1>4, <1>5, <1>6 DEF SettlementNext

LEMMA SettleInductive == SettlementSpec => []SettleIInv
BY SettleInitIInv, SettleNextKeeps, PTL DEF SettlementSpec

\* The rows and the operations keep their shape for any number of requests
\* and disputes.
THEOREM SettlementTypeCorrect == SettlementSpec => []SettlementTypeOK
<1>1. SettleIInv => SettlementTypeOK
  BY DEF SettleIInv
<1> QED BY <1>1, SettleInductive, PTL

\* However write-backs, closings and stops overlap, a settlement is not told
\* to be settled before its owner was paid; and without overlap and stop, and
\* until its period of appeal is closed, repeated write-backs pay him once.
THEOREM PaymentPrecedesStatus == SettlementSpec => []PaidAsSettled
<1>1. SettleIInv => SettledIsPaid
  BY DEF SettleIInv, SettledIsPaid, Paid, Done
<1>2. SettleIInv => PaidOnce
  <2> SUFFICES ASSUME SettleIInv, overlaps = 0, stops = 0, closings = 0, Quiet
               PROVE  ownerPayouts =
                        IF settlement.status = "settled" /\ settlement.payable
                        THEN 1 ELSE 0
    BY DEF PaidOnce
  <2>1. Scanner \in Processes /\ SettleAlone(Scanner) /\ req[Scanner] = Idle
    BY DEF Processes, SettleAlone, Quiet, Free
  <2>2. Counted(Idle, settlement, ownerPayouts, closings)
    BY <2>1 DEF SettleIInv, Ledger
  <2>3. settlement \in SettlementRow /\ ~Ahead(Idle)
    BY SettleIdleSound DEF SettleIInv, SettlementTypeOK, Ahead, Idle
  <2>4. Owed(settlement, 0) = IF settlement.status = "settled" THEN 1 ELSE 0
    BY <2>3 DEF Owed, SettlementRow, SettlementStatuses
  <2> QED BY <2>2, <2>3, <2>4 DEF Counted, SettlementRow
<1>3. SettleIInv => PaidAsSettled
  BY <1>1, <1>2 DEF PaidAsSettled
<1> QED BY <1>3, SettleInductive, PTL

\* As long as no operation begins during another one, no dispute moves back
\* or loses its evidence, wherever operations stop.
LEMMA DisputesMoveForward == SettlementSpec => DisputeForward
<1>1. ASSUME SettleIInv, [SettlementNext]_settlementVars, overlaps' = 0, NEW d \in Disputes
      PROVE  /\ Order(disputes[d].status) <= Order(disputes'[d].status)
             /\ disputes[d].evidence => disputes'[d].evidence
  <2>0. disputes[d] \in DisputeRow
    BY <1>1 DEF SettleIInv, SettlementTypeOK
  <2>1. CASE disputes'[d] = disputes[d]
    BY <2>0, <2>1 DEF DisputeRow, DisputeStatuses, Order
  <2>2. ASSUME NEW e \in Disputes, RaiseDispute(e), disputes'[d] # disputes[d]
        PROVE  /\ disputes[d].status = "none"
               /\ disputes'[d] = [disputes[d] EXCEPT !.status = "evidence_open"]
    BY <2>2 DEF RaiseDispute, SettleIInv, SettlementTypeOK
  <2>3. ASSUME NEW p \in Processes, SaveDispute(p), disputes'[d] # disputes[d]
        PROVE  /\ req[p].at \in DisputeSteps /\ d = req[p].id
               /\ disputes[d].status \in Accepting(req[p].at)
               /\ disputes'[d] = Decided(disputes[d], req[p].at)
               /\ Whole(disputes[d])
    <3>1. /\ req[p].at \in DisputeSteps /\ d = req[p].id /\ overlaps = 0
          /\ disputes'[d] = Decided(req[p].dispute, req[p].at)
      BY <1>1, <2>3 DEF SaveDispute, SettleIInv, SettlementTypeOK
    <3>2. /\ req[p].dispute = disputes[d]
          /\ req[p].dispute.status \in Accepting(req[p].at)
          /\ Whole(req[p].dispute)
      BY <1>1, <3>1 DEF SettleIInv, SettleSerial, SettleCurrent, SettleOpSound
    <3> QED BY <3>1, <3>2
  <2>4. CASE UNCHANGED disputes
    BY <2>1, <2>4
  <2>5. ASSUME NEW e \in Disputes, RaiseDispute(e), disputes'[d] # disputes[d]
        PROVE  /\ Order(disputes[d].status) <= Order(disputes'[d].status)
               /\ disputes[d].evidence => disputes'[d].evidence
    BY <2>0, <2>2, <2>5 DEF DisputeRow, Order
  <2>6. ASSUME NEW p \in Processes, SaveDispute(p), disputes'[d] # disputes[d]
        PROVE  /\ Order(disputes[d].status) <= Order(disputes'[d].status)
               /\ disputes[d].evidence => disputes'[d].evidence
    BY <2>0, <2>3, <2>6, DecisionShape
  <2>7. ASSUME NEW p \in Processes, Continue(p), ~SaveDispute(p)
        PROVE  UNCHANGED disputes
    BY <2>7 DEF Continue, InsertSettlement, Payout, SaveSettled, LoadOrder,
       SaveOrder, LoadSettlement, SaveClosed, ListDisputes, NextDispute, rows
  <2> QED BY <1>1, <2>1, <2>4, <2>5, <2>6, <2>7
          DEF SettlementNext, StartScan, StartTrigger, StartWriteback, StartOrderSave,
              StartDispute, Begin, Stop, rows, settlementVars
<1>2. SettleIInv /\ [SettlementNext]_settlementVars =>
        [overlaps' = 0 =>
           \A d \in Disputes :
             /\ Order(disputes[d].status) <= Order(disputes'[d].status)
             /\ disputes[d].evidence => disputes'[d].evidence]_settlementVars
  BY <1>1
<1> QED BY <1>2, SettleInductive, PTL DEF SettlementSpec, DisputeForward

\* And however parties, platform and scan save their copies of the disputes
\* over each other, status and resolution go together.
THEOREM DisputesAreSound == SettlementSpec => DisputesSound
<1>1. SettleIInv => ResolvedIffDecided
  BY DEF SettleIInv, ResolvedIffDecided, Whole
<1>2. SettlementSpec => []ResolvedIffDecided
  BY <1>1, SettleInductive, PTL
<1> QED BY <1>2, DisputesMoveForward DEF DisputesSound
=============================================================================
