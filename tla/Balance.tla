------------------------------ MODULE Balance ------------------------------
(***************************************************************************)
(* The wallet of backend/src/payment/balance.service.ts: one UserBalance   *)
(* row per user, the BalanceRecord journal, and the withdrawals with their *)
(* review, automatic Alipay transfer and manual completion.                *)
(*                                                                         *)
(* A block under dataSource.transaction with a pessimistic_write lock is   *)
(* one action.  What reviewWithdrawal does after its commit, and the read  *)
(* and the save of completeWithdrawal, are steps of their own, because     *)
(* other requests run between two awaits.  repository.save(copy) writes    *)
(* every column of the copy it is given, however old the copy is.          *)
(*                                                                         *)
(* ReviewableAgain and RejectKeepsMoney are faulty variants, used only to  *)
(* show that the properties notice them.                                   *)
(***************************************************************************)
EXTENDS Integers, FiniteSets, FiniteSetsExt

CONSTANTS
    Users,            \* ids of the users that own a wallet
    Withdrawals,      \* ids that new Withdrawal rows may get
    Admins,           \* concurrent completeWithdrawal requests
    NoWithdrawal,     \* an admin request that is not running
    NoUser,           \* the owner of a row that does not exist yet
    Amounts,          \* amounts a caller may pass, in fen
    MinWithdrawal,    \* the smallest withdrawal, 10000 fen in the code
    MaxCny,           \* the largest value of a Postgres int column
    TransferEnabled   \* ALIPAY_TRANSFER_ENABLED and Alipay configured

ASSUME AmountsAssumption == Amounts \subseteq Int
ASSUME LimitsAssumption == MinWithdrawal \in Nat /\ MaxCny \in Nat
ASSUME NoneAssumption == NoWithdrawal \notin Withdrawals /\ NoUser \notin Users
ASSUME TransferAssumption == TransferEnabled \in BOOLEAN

VARIABLES
    account,      \* users whose user_balances row exists
    balance,      \* the row's amounts (all 0 while the row is missing)
    records,      \* per user and change type, the sum of the journal's amounts
    withdrawal,   \* the withdrawals table
    tail,         \* what is left of a committed reviewWithdrawal, with its copy
    completing,   \* per admin request, the row completeWithdrawal has read
    payouts       \* external: the ways the money of a withdrawal has left CSI

vars == <<account, balance, records, withdrawal, tail, completing, payouts>>

IncomeTypes == {"ORDER_INCOME", "REFUND", "DEPOSIT"}
ChangeTypes == IncomeTypes \cup {"WITHDRAWAL", "ORDER_PAYMENT"}
Methods == {"ALIPAY", "BANK"}
Statuses == {"NONE", "PENDING", "APPROVED", "REJECTED", "COMPLETED"}
TransactionIds == {"none", "alipay", "manual"}

BalanceRow == [available : Int, frozen : Int,
               totalIncome : Int, totalWithdrawal : Int]
EmptyBalance == [available |-> 0, frozen |-> 0,
                 totalIncome |-> 0, totalWithdrawal |-> 0]

WithdrawalRow == [status : Statuses, user : Users \cup {NoUser}, amount : Nat,
                  method : Methods, transactionId : TransactionIds]
NoRow == [status |-> "NONE", user |-> NoUser, amount |-> 0,
          method |-> "BANK", transactionId |-> "none"]

\* The handler's local copy after the commit; only these two columns change.
ReviewTail == [pc : {"idle", "transferring", "saving"},
               status : Statuses, transactionId : TransactionIds]
NoTail == [pc |-> "idle", status |-> "NONE", transactionId |-> "none"]

-----------------------------------------------------------------------------
Init ==
    /\ account = {}
    /\ balance = [u \in Users |-> EmptyBalance]
    /\ records = [u \in Users |-> [t \in ChangeTypes |-> 0]]
    /\ withdrawal = [w \in Withdrawals |-> NoRow]
    /\ tail = [w \in Withdrawals |-> NoTail]
    /\ completing = [a \in Admins |-> NoWithdrawal]
    /\ payouts = [w \in Withdrawals |-> {}]

\* The checks made under a lock (lines 260 and 330, 391) or on a read (490).
Covers(u, amount) == balance[u].available >= amount

ReviewableAgain(w) == withdrawal[w].status # "NONE"
Reviewable(w) == withdrawal[w].status = "PENDING"

Completable(w) == withdrawal[w].status = "APPROVED"

\* A BalanceRecord is appended to the journal.
Record(u, type, amount) ==
    records' = [records EXCEPT ![u][type] = @ + amount]

\* getOrCreateBalance, which every balance query goes through.
GetOrCreateBalance(u) ==
    /\ u \notin account
    /\ account' = account \cup {u}
    /\ UNCHANGED <<balance, records, withdrawal, tail, completing, payouts>>

\* addIncome: order income, refunds and recharges.
AddIncome(u, amount, type) ==
    /\ amount > 0
    /\ balance[u].totalIncome + amount <= MaxCny
    /\ account' = account \cup {u}
    /\ balance' = [balance EXCEPT ![u].available = @ + amount,
                                  ![u].totalIncome = @ + amount]
    /\ Record(u, type, amount)
    /\ UNCHANGED <<withdrawal, tail, completing, payouts>>

\* payFromBalance: the buyer's money goes into escrow.
PayFromBalance(u, amount) ==
    /\ amount > 0
    /\ u \in account
    /\ Covers(u, amount)
    /\ balance' = [balance EXCEPT ![u].available = @ - amount]
    /\ Record(u, "ORDER_PAYMENT", -amount)
    /\ UNCHANGED <<account, withdrawal, tail, completing, payouts>>

\* requestWithdrawal: freeze the amount and file a PENDING row.
RequestWithdrawal(u, w, amount, method) ==
    /\ withdrawal[w].status = "NONE"
    /\ amount > 0
    /\ amount >= MinWithdrawal
    /\ u \in account
    /\ Covers(u, amount)
    /\ balance' = [balance EXCEPT ![u].available = @ - amount,
                                  ![u].frozen = @ + amount]
    /\ withdrawal' = [withdrawal EXCEPT
                        ![w] = [status |-> "PENDING", user |-> u,
                                amount |-> amount, method |-> method,
                                transactionId |-> "none"]]
    /\ Record(u, "WITHDRAWAL", -amount)
    /\ UNCHANGED <<account, tail, completing, payouts>>

\* The transaction of reviewWithdrawal with approved = true.  After it commits
\* the same request goes on to the automatic transfer of an ALIPAY withdrawal.
Approve(w) ==
    LET row == withdrawal[w] IN
    /\ Reviewable(w)
    /\ row.user \in account
    /\ balance' = [balance EXCEPT ![row.user].frozen = @ - row.amount,
                                  ![row.user].totalWithdrawal = @ + row.amount]
    /\ withdrawal' = [withdrawal EXCEPT ![w].status = "APPROVED"]
    /\ tail' = IF row.method = "ALIPAY" /\ TransferEnabled
               THEN [tail EXCEPT ![w] = [pc |-> "transferring",
                                         status |-> "APPROVED",
                                         transactionId |-> row.transactionId]]
               ELSE tail
    /\ UNCHANGED <<account, records, completing, payouts>>

RejectKeepsMoney(w) ==
    /\ Reviewable(w)
    /\ balance' = [balance EXCEPT ![withdrawal[w].user].frozen =
                                    @ - withdrawal[w].amount]
    /\ withdrawal' = [withdrawal EXCEPT ![w].status = "REJECTED"]
    /\ UNCHANGED <<account, records, tail, completing, payouts>>

\* The same transaction with approved = false.  It writes no BalanceRecord.
Reject(w) ==
    LET row == withdrawal[w] IN
    /\ Reviewable(w)
    /\ row.user \in account
    /\ balance' = [balance EXCEPT ![row.user].frozen = @ - row.amount,
                                  ![row.user].available = @ + row.amount]
    /\ withdrawal' = [withdrawal EXCEPT ![w].status = "REJECTED"]
    /\ UNCHANGED <<account, records, tail, completing, payouts>>

\* transferToAccount answers SUCCESS: the copy becomes COMPLETED.
TransferSucceeds(w) ==
    /\ tail[w].pc = "transferring"
    /\ payouts' = [payouts EXCEPT ![w] = @ \cup {"alipay"}]
    /\ tail' = [tail EXCEPT ![w] = [pc |-> "saving", status |-> "COMPLETED",
                                    transactionId |-> "alipay"]]
    /\ UNCHANGED <<account, balance, records, withdrawal, completing>>

\* transferToAccount answers FAIL or UNKNOWN, or throws: only reviewNotes
\* changes.  After FAIL no money moved; after UNKNOWN or a timeout it may have.
TransferNotSuccessful(w) ==
    /\ tail[w].pc = "transferring"
    /\ \E moved \in {{}, {"alipay"}} :
         payouts' = [payouts EXCEPT ![w] = @ \cup moved]
    /\ tail' = [tail EXCEPT ![w].pc = "saving"]
    /\ UNCHANGED <<account, balance, records, withdrawal, completing>>

\* withdrawalRepository.save(reviewedWithdrawal) with the copy of the commit.
SaveReviewed(w) ==
    /\ tail[w].pc = "saving"
    /\ withdrawal' = [withdrawal EXCEPT
                        ![w].status = tail[w].status,
                        ![w].transactionId = tail[w].transactionId]
    /\ tail' = [tail EXCEPT ![w] = NoTail]
    /\ UNCHANGED <<account, balance, records, completing, payouts>>

\* The process stops: what the request had left to do is lost.
CrashReview(w) ==
    /\ tail[w].pc # "idle"
    /\ tail' = [tail EXCEPT ![w] = NoTail]
    /\ UNCHANGED <<account, balance, records, withdrawal, completing, payouts>>

\* completeWithdrawal, which an admin calls after paying offline: the read ...
CompleteRead(a, w) ==
    /\ completing[a] = NoWithdrawal
    /\ Completable(w)
    /\ completing' = [completing EXCEPT ![a] = w]
    /\ payouts' = [payouts EXCEPT ![w] = @ \cup {"offline"}]
    /\ UNCHANGED <<account, balance, records, withdrawal, tail>>

\* ... and the save of the copy it read.
CompleteSave(a) ==
    LET w == completing[a] IN
    /\ w # NoWithdrawal
    /\ withdrawal' = [withdrawal EXCEPT ![w].status = "COMPLETED",
                                        ![w].transactionId = "manual"]
    /\ completing' = [completing EXCEPT ![a] = NoWithdrawal]
    /\ UNCHANGED <<account, balance, records, tail, payouts>>

WalletStep ==
    \E u \in Users :
      \/ GetOrCreateBalance(u)
      \/ \E amount \in Amounts :
           \/ \E type \in IncomeTypes : AddIncome(u, amount, type)
           \/ PayFromBalance(u, amount)
           \/ \E w \in Withdrawals, method \in Methods :
                RequestWithdrawal(u, w, amount, method)

WithdrawalStep ==
    \E w \in Withdrawals :
      \/ Approve(w)
      \/ Reject(w)
      \/ TransferSucceeds(w)
      \/ TransferNotSuccessful(w)
      \/ SaveReviewed(w)
      \/ CrashReview(w)

CompleteStep ==
    \E a \in Admins :
      \/ \E w \in Withdrawals : CompleteRead(a, w)
      \/ CompleteSave(a)

Next == WalletStep \/ WithdrawalStep \/ CompleteStep

Spec == Init /\ [][Next]_vars

-----------------------------------------------------------------------------
(***************************************************************************)
(* What the wallet promises.                                               *)
(***************************************************************************)

\* The rows keep the shape of their entities, and no wallet is overdrawn:
\* payFromBalance and requestWithdrawal check availableCny under the lock.
TypeOK ==
    /\ account \subseteq Users
    /\ balance \in [Users -> BalanceRow]
    /\ \A u \in Users : balance[u].available >= 0
    /\ records \in [Users -> [ChangeTypes -> Int]]
    /\ withdrawal \in [Withdrawals -> WithdrawalRow]
    /\ tail \in [Withdrawals -> ReviewTail]
    /\ completing \in [Admins -> Withdrawals \cup {NoWithdrawal}]
    /\ payouts \in [Withdrawals -> SUBSET {"alipay", "offline"}]

Conserved(b, r) ==
    /\ b.available + b.frozen + b.totalWithdrawal
         = b.totalIncome + r["ORDER_PAYMENT"]
    /\ b.totalIncome = r["ORDER_INCOME"] + r["REFUND"] + r["DEPOSIT"]

Conservation == \A u \in Users : Conserved(balance[u], records[u])

Approved(w) == withdrawal[w].status \in {"APPROVED", "COMPLETED"}
PayoutOnlyApproved ==
    \A w \in Withdrawals :
      (payouts[w] # {} \/ tail[w].pc # "idle") => Approved(w)

\* Money is neither made nor lost inside a wallet and never overdrawn: what
\* came in is available, frozen, withdrawn or was paid into an escrow, and the
\* journal's income records add up to the row's running total.  It leaves the
\* platform only for a withdrawal an admin approved, and every request still
\* working on a withdrawal works on an approved one (balance.service.ts
\* 67-419).
MoneyAccounted ==
    /\ Conservation
    /\ \A u \in Users : balance[u].available >= 0
    /\ PayoutOnlyApproved

AmountIn(u, statuses) ==
    MapThenSumSet(LAMBDA w : withdrawal[w].amount,
                  {w \in Withdrawals : /\ withdrawal[w].user = u
                                       /\ withdrawal[w].status \in statuses})

\* The frozen amount is exactly what the user's undecided withdrawals hold, and
\* totalWithdrawalCny is exactly what was approved, whatever the order of
\* reviews, transfers, manual completions and crashes (requestWithdrawal,
\* reviewWithdrawal, completeWithdrawal).
FrozenBacksPending ==
    \A u \in Users :
      /\ balance[u].frozen = AmountIn(u, {"PENDING"})
      /\ balance[u].totalWithdrawal = AmountIn(u, {"APPROVED", "COMPLETED"})

\* A review is decided once: no late save of a stale copy turns a rejected
\* withdrawal into a payable one or puts an approved one back to PENDING
\* (reviewWithdrawal line 391, completeWithdrawal line 490).
ReviewDecidedOnce ==
    [][\A w \in Withdrawals :
         /\ withdrawal[w].status = "REJECTED" => withdrawal'[w] = withdrawal[w]
         /\ Approved(w) => Approved(w)']_vars

\* What the owner of a withdrawal sees of its row: COMPLETED is approved too.
ClaimState(status) ==
    CASE status = "NONE" -> "none"
      [] status = "PENDING" -> "pending"
      [] status = "REJECTED" -> "rejected"
      [] OTHER -> "approved"
ClaimOf(row) == [state |-> ClaimState(row.status),
                 user |-> row.user, amount |-> row.amount]

Spendable == [u \in Users |-> balance[u].available]
Claimed == [w \in Withdrawals |-> ClaimOf(withdrawal[w])]
Gone == {w \in Withdrawals : payouts[w] # {}}

Promised == INSTANCE Wallet WITH
    Claims <- Withdrawals, available <- Spendable, claim <- Claimed, left <- Gone

\* The rows, their locks and the requests that overlap, crash and save stale
\* copies behave as the wallet its owner is promised: every step is a step of
\* Wallet or changes nothing the owner sees (balance.service.ts 67-500).
ImplementsWallet == Promised!Spec
=============================================================================
