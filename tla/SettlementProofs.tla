-------------------------- MODULE SettlementProofs --------------------------
(***************************************************************************)
(* Theorems about Settlement, and about what Reports shows of its rows,    *)
(* for every set of handlers, requests, invoices, bills and amounts.       *)
(*                                                                         *)
(* The argument: the first save of a confirmation locks the row of its     *)
(* request until the transaction ends, and the look-up for a payment       *)
(* transaction comes after that save.  So while a handler has an           *)
(* uncommitted payment transaction nobody else is between the same save    *)
(* and its own commit for the same request, and what the look-up found     *)
(* stays true until the commit.                                            *)
(*                                                                         *)
(* As for the wallet: a wallet transaction always starts from a balance    *)
(* the wallet had, and as long as confirmations do not overlap each one    *)
(* implements a single step of WalletLedger.  What makes that true, and    *)
(* fails when they overlap, is that the balance a confirmation has read is *)
(* still the balance of the wallet when it commits.                        *)
(*                                                                         *)
(* As for the screens: a receipt number reaches a bill list through the    *)
(* joins exactly when a request for an invoice that groups the bill has a  *)
(* payment transaction (ShownReceipts, ReceiptIsShown).  The commit of     *)
(* that transaction gives all these bills a status that is not unpaid, and *)
(* no commit takes such a status back; the status of a bill, on the other  *)
(* hand, has its source in a request with a transaction.  And the books of *)
(* payments and of the wallet are the same.                                *)
(*                                                                         *)
(* As for what they add up: some set of bills, which only grows, holds all *)
(* bills that are paid and is covered by the payments, and each invoice    *)
(* asks for enough to pay for its bills outside that set (Covers).         *)
(***************************************************************************)
EXTENDS Reports, Sums, SequenceTheorems

(* A handler in one of these states has an uncommitted payment transaction *)
(* and, in the last two, an uncommitted wallet transaction.                *)
Booked == {"wallet", "saveWallet", "posted"}

(* What the local variables of a handler hold, by where it is.             *)
LocalsAt(h) ==
  /\ pc[h] # "idle" => doing[h] \in Credits
  /\ pc[h] \notin {"idle", "verify"} => answer[h] \in Answers
  /\ pc[h] \in {"saveWallet", "posted"} =>
       \E before \in Int : entries[h] = <<WalletRow(h, before)>>

(* The lock and what it protects.                                          *)
LockProtects(h) ==
  /\ pc[h] \in PostingStates \ {"aborted"} => requestLock[doing[h]] = h
  /\ pc[h] \in Booked => /\ inserted[h] = <<TransactionRow(h)>>
                         /\ ~ HasTransaction(doing[h])

SettlementInv ==
  /\ SettlementTypeOK
  /\ OneTransactionPerRequest
  /\ \A h \in Handlers : LocalsAt(h) /\ LockProtects(h)

-----------------------------------------------------------------------------

USE DEF PostingStates, SettlementStates, PaymentStatus, Credits

(* The invariant holds before any confirmation has begun.                  *)
LEMMA InitHolds == SettlementInit => SettlementInv
BY PostingAssumption, SettlementAssumption
DEF SettlementInit, PostingInit, SettlementInv, SettlementTypeOK, PostingTypeOK,
    OneTransactionPerRequest, LocalsAt, LockProtects, Booked, Absent, Unpaid,
    NoInvoice, TransactionRows, WalletRows, HasTransaction

(* A confirmation that begins holds nothing yet.                           *)
LEMMA ValidatePreserves ==
  ASSUME SettlementInv, NEW h \in Handlers, NEW r \in Requests,
         ValidatePayment(h, r)
  PROVE  SettlementInv'
<1> USE PostingAssumption DEF SettlementInv, ValidatePayment, Goto
<1>1. SettlementTypeOK'
  BY DEF SettlementTypeOK, PostingTypeOK, lockVars, ledgerVars, billingVars
<1>2. OneTransactionPerRequest'
  BY DEF OneTransactionPerRequest, ledgerVars
<1>3. ASSUME NEW k \in Handlers PROVE (LocalsAt(k) /\ LockProtects(k))'
  BY <1>1 DEF LocalsAt, LockProtects, Booked, TransactionRow, WalletRow,
     HasTransaction, SettlementTypeOK, PostingTypeOK, lockVars, ledgerVars
<1>4. QED
  BY <1>1, <1>2, <1>3

(* The rows a confirmation builds are rows.                                *)
LEMMA TransactionRowType ==
  ASSUME SettlementInv, NEW h \in Handlers, pc[h] \in PostingStates
  PROVE  /\ TransactionRow(h) \in TransactionRows
         /\ <<TransactionRow(h)>> \in Seq(TransactionRows)
<1>1. TransactionRow(h) \in TransactionRows
  BY DEF SettlementInv, LocalsAt, TransactionRow, TransactionRows, Answers
<1>2. QED
  BY <1>1

(* An amount the gateway reports is a number.                              *)
LEMMA AmountIsInt == ASSUME NEW a \in Amounts PROVE a \in Int
BY PostingAssumption DEF PostingAssumption

(* The row built from whatever balance was read is a wallet_transaction.   *)
LEMMA WalletRowType ==
  ASSUME SettlementInv, NEW h \in Handlers, pc[h] \in PostingStates,
         NEW before \in Int
  PROVE  /\ WalletRow(h, before) \in WalletRows
         /\ <<WalletRow(h, before)>> \in Seq(WalletRows)
<1>1. /\ doing[h] \in Requests
      /\ answer[h].amount \in Amounts
      /\ answer[h].amount \in Int
  <2>1. LocalsAt(h) /\ pc[h] \notin {"idle", "verify"}
    BY DEF SettlementInv
  <2>2. doing[h] \in Requests /\ answer[h] \in Answers
    BY <2>1 DEF LocalsAt
  <2>3. answer[h].amount \in Amounts
    BY <2>2 DEF Answers
  <2>4. QED
    BY <2>2, <2>3, AmountIsInt, Zenon
<1>2. BalanceAfter(TypeOf[doing[h]], before, answer[h].amount) \in Int
  BY <1>1 DEF BalanceAfter
<1>3. WalletRow(h, before) \in WalletRows
  BY <1>1, <1>2 DEF WalletRow, WalletRows
<1>4. QED
  BY <1>3

(* A transaction that ends leaves well-typed locks and local variables.    *)
LEMMA EndType ==
  ASSUME SettlementInv, NEW h \in Handlers, Forget(h), Release(h)
  PROVE  /\ doing' \in [Handlers -> Requests \cup {None}]
         /\ answer' \in [Handlers -> Answers \cup {None}]
         /\ inserted' \in [Handlers -> Seq(TransactionRows)]
         /\ entries' \in [Handlers -> Seq(WalletRows)]
         /\ requestLock' \in [Requests -> Handlers \cup {None}]
         /\ walletLock' \in Handlers \cup {None}
<1>1. <<>> \in Seq(TransactionRows) /\ <<>> \in Seq(WalletRows)
  OBVIOUS
<1>2. QED
  BY <1>1 DEF SettlementInv, SettlementTypeOK, PostingTypeOK, Forget, Release

(* The answer of the gateway is a local variable of its confirmation.      *)
LEMMA VerifyPreserves ==
  ASSUME SettlementInv, NEW h \in Handlers, Verify(h)
  PROVE  SettlementInv'
<1> USE PostingAssumption DEF SettlementInv, Verify, Goto
<1>1. SettlementTypeOK'
  BY DEF SettlementTypeOK, PostingTypeOK, lockVars, ledgerVars, billingVars
<1>2. OneTransactionPerRequest'
  BY DEF OneTransactionPerRequest, ledgerVars
<1>3. ASSUME NEW k \in Handlers PROVE (LocalsAt(k) /\ LockProtects(k))'
  BY <1>1 DEF LocalsAt, LockProtects, Booked, TransactionRow, WalletRow,
     HasTransaction, SettlementTypeOK, PostingTypeOK, lockVars, ledgerVars
<1>4. QED
  BY <1>1, <1>2, <1>3

(* The first save takes the row of the request, which was free.            *)
LEMMA SaveRequestPreserves ==
  ASSUME SettlementInv, NEW h \in Handlers, SaveRequest(h)
  PROVE  SettlementInv'
<1> USE PostingAssumption DEF SettlementInv, SaveRequest, Goto, LockRequest
<1>1. SettlementTypeOK'
  <2>1. PICK to \in {"check", "aborted"} : pc' = [pc EXCEPT ![h] = to]
    OBVIOUS
  <2>2. pc' \in [Handlers -> SettlementStates]
    BY <2>1 DEF SettlementTypeOK, PostingTypeOK
  <2>3. requestLock' \in [Requests -> Handlers \cup {None}]
    BY DEF SettlementTypeOK, PostingTypeOK
  <2> QED BY <2>2, <2>3
    DEF SettlementTypeOK, PostingTypeOK, lockVars, ledgerVars, billingVars
<1>2. OneTransactionPerRequest'
  BY DEF OneTransactionPerRequest, ledgerVars
<1>3. ASSUME NEW k \in Handlers PROVE (LocalsAt(k) /\ LockProtects(k))'
  BY <1>1 DEF LocalsAt, LockProtects, Booked, TransactionRow, WalletRow,
     HasTransaction, SettlementTypeOK, PostingTypeOK, lockVars, ledgerVars
<1>4. QED
  BY <1>1, <1>2, <1>3

(* The look-up after the save: past it the request has no transaction, and *)
(* the lock keeps it so.                                                   *)
LEMMA CheckPreserves ==
  ASSUME SettlementInv, NEW h \in Handlers, CheckNoTransaction(h), UNCHANGED billingVars
  PROVE  SettlementInv'
<1> USE PostingAssumption DEF SettlementInv, CheckNoTransaction, Goto
<1>1. SettlementTypeOK'
  BY DEF SettlementTypeOK, PostingTypeOK, lockVars, ledgerVars, billingVars
<1>2. OneTransactionPerRequest'
  BY DEF OneTransactionPerRequest, ledgerVars
<1>3. ASSUME NEW k \in Handlers PROVE (LocalsAt(k) /\ LockProtects(k))'
  BY <1>1 DEF LocalsAt, LockProtects, Booked, TransactionRow, WalletRow,
     HasTransaction, SettlementTypeOK, PostingTypeOK, lockVars, ledgerVars
<1>4. QED
  BY <1>1, <1>2, <1>3

(* An inserted row is the one of the request the handler has locked.       *)
LEMMA InsertPreserves ==
  ASSUME SettlementInv, NEW h \in Handlers, InsertTransaction(h), UNCHANGED billingVars
  PROVE  SettlementInv'
<1> USE PostingAssumption DEF SettlementInv, InsertTransaction, Goto
<1>1. SettlementTypeOK'
  <2>1. <<TransactionRow(h)>> \in Seq(TransactionRows)
    BY TransactionRowType
  <2>2. inserted' \in [Handlers -> Seq(TransactionRows)]
    BY <2>1 DEF SettlementTypeOK, PostingTypeOK
  <2>3. QED
    BY <2>2
    DEF SettlementTypeOK, PostingTypeOK, lockVars, ledgerVars, billingVars
<1>2. OneTransactionPerRequest'
  BY DEF OneTransactionPerRequest, ledgerVars
<1>3. ASSUME NEW k \in Handlers PROVE (LocalsAt(k) /\ LockProtects(k))'
  BY <1>1 DEF LocalsAt, LockProtects, Booked, TransactionRow, WalletRow,
     HasTransaction, SettlementTypeOK, PostingTypeOK, lockVars, ledgerVars
<1>4. QED
  BY <1>1, <1>2, <1>3

(* The wallet row is built from the balance read in the same step.         *)
LEMMA CreatePreserves ==
  ASSUME SettlementInv, NEW h \in Handlers, CreateWalletTransaction(h), UNCHANGED billingVars
  PROVE  SettlementInv'
<1> USE PostingAssumption DEF SettlementInv, CreateWalletTransaction, Goto
<1>1. SettlementTypeOK'
  <2>1. balance \in Int
    BY DEF SettlementTypeOK, PostingTypeOK
  <2>2. <<WalletRow(h, balance)>> \in Seq(WalletRows)
    BY <2>1, WalletRowType
  <2>3. QED
    BY <2>2
    DEF SettlementTypeOK, PostingTypeOK, lockVars, ledgerVars, billingVars
<1>2. OneTransactionPerRequest'
  BY DEF OneTransactionPerRequest, ledgerVars
<1>3. ASSUME NEW k \in Handlers PROVE (LocalsAt(k) /\ LockProtects(k))'
  BY <1>1 DEF LocalsAt, LockProtects, Booked, TransactionRow, WalletRow,
     HasTransaction, SettlementTypeOK, PostingTypeOK, lockVars, ledgerVars
<1>4. QED
  BY <1>1, <1>2, <1>3

(* The save of the wallet takes its row and nothing else.                  *)
LEMMA SaveWalletPreserves ==
  ASSUME SettlementInv, NEW h \in Handlers, SaveWallet(h), UNCHANGED billingVars
  PROVE  SettlementInv'
<1> USE PostingAssumption DEF SettlementInv, SaveWallet, Goto
<1>1. SettlementTypeOK'
  BY DEF SettlementTypeOK, PostingTypeOK, lockVars, ledgerVars, billingVars
<1>2. OneTransactionPerRequest'
  BY DEF OneTransactionPerRequest, ledgerVars
<1>3. ASSUME NEW k \in Handlers PROVE (LocalsAt(k) /\ LockProtects(k))'
  BY <1>1 DEF LocalsAt, LockProtects, Booked, TransactionRow, WalletRow,
     HasTransaction, SettlementTypeOK, PostingTypeOK, lockVars, ledgerVars
<1>4. QED
  BY <1>1, <1>2, <1>3

(* A rejected read loses neither lock nor uncommitted row.                 *)
LEMMA ReadFailsPreserves ==
  ASSUME SettlementInv, NEW h \in Handlers, ReadFails(h), UNCHANGED billingVars
  PROVE  SettlementInv'
<1> USE PostingAssumption DEF SettlementInv, ReadFails, Goto
<1>1. SettlementTypeOK'
  BY DEF SettlementTypeOK, PostingTypeOK, lockVars, ledgerVars, billingVars
<1>2. OneTransactionPerRequest'
  BY DEF OneTransactionPerRequest, ledgerVars
<1>3. ASSUME NEW k \in Handlers PROVE (LocalsAt(k) /\ LockProtects(k))'
  BY <1>1 DEF LocalsAt, LockProtects, Booked, TransactionRow, WalletRow,
     HasTransaction, SettlementTypeOK, PostingTypeOK, lockVars, ledgerVars
<1>4. QED
  BY <1>1, <1>2, <1>3

(* A rollback, after an exception or of a process that died, forgets and   *)
(* releases everything at once.                                            *)
LEMMA RollbackPreserves ==
  ASSUME SettlementInv, NEW h \in Handlers,
         RollbackSettlement(h) \/ FailSettlement(h)
  PROVE  SettlementInv'
<1>1. /\ pc' = [pc EXCEPT ![h] = "idle"]
      /\ UNCHANGED <<ledgerVars, request, billingVars>>
      /\ Forget(h)
      /\ Release(h)
  BY DEF RollbackSettlement, FailSettlement, RollbackPosting, Goto
<1> USE <1>1, PostingAssumption DEF SettlementInv
<1>2. SettlementTypeOK'
  BY EndType DEF SettlementTypeOK, PostingTypeOK, ledgerVars, billingVars
<1>3. OneTransactionPerRequest'
  BY DEF OneTransactionPerRequest, ledgerVars
<1>4. ASSUME NEW k \in Handlers PROVE (LocalsAt(k) /\ LockProtects(k))'
  BY <1>2 DEF Forget, Release, LocalsAt, LockProtects, Booked,
     TransactionRow, WalletRow, HasTransaction, SettlementTypeOK,
     PostingTypeOK, PostingAssumption, ledgerVars
<1>5. QED
  BY <1>2, <1>3, <1>4

(* The book of payment transactions grows by the row that commits, so a    *)
(* request has a transaction afterwards if it had one or if the row is its.*)
LEMMA AppendOne ==
  ASSUME NEW S, NEW s \in Seq(S), NEW x \in S
  PROVE  /\ s \o <<x>> \in Seq(S)
         /\ Len(s \o <<x>>) = Len(s) + 1
         /\ DOMAIN (s \o <<x>>) = 1 .. Len(s) + 1
         /\ \A i \in 1 .. Len(s) : (s \o <<x>>)[i] = s[i]
         /\ (s \o <<x>>)[Len(s) + 1] = x
OBVIOUS

(* What the commit of a confirmation does to the books.                    *)
LEMMA CommitFacts ==
  ASSUME SettlementInv, NEW h \in Handlers, CommitSettlement(h)
  PROVE  /\ doing[h] \in Credits
         /\ answer[h] \in Answers
         /\ ~ HasTransaction(doing[h])
         /\ transactions' \in Seq(TransactionRows)
         /\ Len(transactions) \in Nat
         /\ DOMAIN transactions = 1 .. Len(transactions)
         /\ DOMAIN transactions' = 1 .. Len(transactions) + 1
         /\ Len(transactions') = Len(transactions) + 1
         /\ \A n \in 1 .. Len(transactions) : transactions'[n] = transactions[n]
         /\ transactions'[Len(transactions) + 1] = TransactionRow(h)
         /\ transactions'[Len(transactions) + 1].request = doing[h]
         /\ transactions'[Len(transactions) + 1].amount = answer[h].amount
         /\ \A n \in DOMAIN transactions' :
              n \in DOMAIN transactions \/ n = Len(transactions) + 1
         /\ \A n \in DOMAIN transactions :
              transactions[n].request \in Requests \ {doing[h]}
         /\ \A q : HasTransaction(q)' <=> HasTransaction(q) \/ q = doing[h]
<1> USE PostingAssumption DEF SettlementInv
<1>1. /\ pc[h] = "posted"
      /\ transactions' = transactions \o inserted[h]
  BY DEF CommitSettlement, CommitPosting, Goto
<1>2. /\ doing[h] \in Credits
      /\ answer[h] \in Answers
      /\ inserted[h] = <<TransactionRow(h)>>
      /\ TransactionRow(h) \in TransactionRows
      /\ TransactionRow(h).request = doing[h]
      /\ TransactionRow(h).amount = answer[h].amount
      /\ ~ HasTransaction(doing[h])
  BY <1>1, TransactionRowType DEF LocalsAt, LockProtects, Booked, TransactionRow
<1>3. transactions \in Seq(TransactionRows)
  BY DEF SettlementTypeOK, PostingTypeOK
<1>4. /\ Len(transactions) \in Nat
      /\ DOMAIN transactions = 1 .. Len(transactions)
      /\ DOMAIN transactions' = 1 .. Len(transactions) + 1
      /\ Len(transactions') = Len(transactions) + 1
      /\ \A n \in 1 .. Len(transactions) : transactions'[n] = transactions[n]
      /\ transactions'[Len(transactions) + 1] = TransactionRow(h)
      /\ transactions' \in Seq(TransactionRows)
  BY <1>1, <1>2, <1>3, AppendOne
<1>5. \A q : HasTransaction(q)' <=> HasTransaction(q) \/ q = doing[h]
  BY <1>2, <1>4 DEF HasTransaction
<1>6. \A n \in DOMAIN transactions :
        transactions[n].request \in Requests \ {doing[h]}
  <2>1. ASSUME NEW n \in DOMAIN transactions
        PROVE  transactions[n].request \in Requests
    <3>1. transactions[n] \in TransactionRows
      BY <1>3
    <3>2. QED
      BY <3>1 DEF TransactionRows
  <2>2. QED
    BY <1>2, <2>1 DEF HasTransaction
<1>7. \A n \in DOMAIN transactions' :
        n \in DOMAIN transactions \/ n = Len(transactions) + 1
  BY <1>4
<1>8. QED
  BY <1>2, <1>4, <1>5, <1>6, <1>7

(* And to the wallet's transactions.                                       *)
LEMMA CommitWallet ==
  ASSUME SettlementInv, NEW h \in Handlers, CommitSettlement(h)
  PROVE  \E before \in Int :
           /\ entries[h] = <<WalletRow(h, before)>>
           /\ WalletRow(h, before) \in WalletRows
           /\ walletTransactions' \in Seq(WalletRows)
           /\ Len(walletTransactions) \in Nat
           /\ DOMAIN walletTransactions = 1 .. Len(walletTransactions)
           /\ DOMAIN walletTransactions' = 1 .. Len(walletTransactions) + 1
           /\ Len(walletTransactions') = Len(walletTransactions) + 1
           /\ \A n \in 1 .. Len(walletTransactions) :
                walletTransactions'[n] = walletTransactions[n]
           /\ walletTransactions'[Len(walletTransactions) + 1] =
                WalletRow(h, before)
<1> USE DEF SettlementInv
<1>1. /\ pc[h] = "posted"
      /\ walletTransactions' = walletTransactions \o entries[h]
  BY DEF CommitSettlement, CommitPosting, Goto
<1>2. PICK before \in Int : entries[h] = <<WalletRow(h, before)>>
  BY <1>1 DEF LocalsAt
<1>3. WalletRow(h, before) \in WalletRows
  BY <1>1, WalletRowType
<1>4. walletTransactions \in Seq(WalletRows)
  BY DEF SettlementTypeOK, PostingTypeOK
<1>5. QED
  BY <1>1, <1>2, <1>3, <1>4, AppendOne

(* A commit appends the transaction of a request that had none and releases*)
(* its lock, so no other handler relied on that request.                   *)
LEMMA CommitPreserves ==
  ASSUME SettlementInv, NEW h \in Handlers, CommitSettlement(h)
  PROVE  SettlementInv'
<1> DEFINE r == doing[h]
           i == InvoiceOf[r]
<1> USE PostingAssumption DEF SettlementInv
<1>1. /\ pc[h] = "posted"
      /\ pc' = [pc EXCEPT ![h] = "idle"]
      /\ balance' = IF walletLock = h THEN entries[h][1].after ELSE balance
      /\ Forget(h)
      /\ Release(h)
  BY DEF CommitSettlement, CommitPosting, Goto
<1>2. r \in Credits /\ answer[h] \in Answers
  BY CommitFacts
<1>3. balance' \in Int /\ walletTransactions' \in Seq(WalletRows)
  <2>1. PICK before \in Int :
          /\ entries[h] = <<WalletRow(h, before)>>
          /\ WalletRow(h, before) \in WalletRows
          /\ walletTransactions' \in Seq(WalletRows)
    BY CommitWallet
  <2>2. entries[h][1].after \in Int
    BY <2>1 DEF WalletRows
  <2>3. QED
    BY <1>1, <2>1, <2>2 DEF SettlementTypeOK, PostingTypeOK
<1>4. SettlementTypeOK'
  <2>1. PostingTypeOK(SettlementStates)'
    <3>1. transactions' \in Seq(TransactionRows)
      BY CommitFacts
    <3>2. request' \in [Requests -> [status : PaymentStatus,
                                     paid : Amounts \cup {0}]]
      BY <1>2 DEF CommitSettlement, PaidRequest, SettlementTypeOK,
         PostingTypeOK, Answers
    <3>3. QED
      BY <1>1, <1>3, <3>1, <3>2, EndType DEF SettlementTypeOK, PostingTypeOK
  <2>2. PaidRequest(h).status \in PaymentStatus
    BY DEF PaidRequest
  <2>3. i \in Invoices
    BY <1>2, SettlementAssumption DEF SettlementAssumption
  <2>4. ASSUME NEW b \in BillsOf[i] PROVE PerBill(i) \in Int
    <3>1. /\ IsFiniteSet(BillsOf[i])
          /\ BillsOf[i] # {}
      BY <2>3, <2>4, SettlementAssumption, FS_Subset DEF SettlementAssumption
    <3>2. Cardinality(BillsOf[i]) \in Nat /\ Cardinality(BillsOf[i]) # 0
      BY <3>1, FS_CardinalityType, FS_EmptySet
    <3>3. invoice[i].paid \in Int
      BY <2>3 DEF SettlementTypeOK
    <3>4. QED
      BY <3>2, <3>3 DEF PerBill
  <2>5. invoice' \in [Invoices -> [status : PaymentStatus, paid : Int, due : Nat]]
    BY <2>2, <2>3 DEF CommitSettlement, UpdatedInvoice, SettlementTypeOK
  <2>6. bill' \in [Bills -> [status : PaymentStatus, paid : Int]]
    BY <2>2, <2>4 DEF CommitSettlement, UpdatedBill, SettlementTypeOK
  <2>7. subscription' \in [Subscriptions -> [paid : Int, payable : Int]]
    BY <2>4 DEF CommitSettlement, UpdatedSubscription, SettlementTypeOK
  <2>8. QED
    BY <2>1, <2>5, <2>6, <2>7 DEF SettlementTypeOK
<1>5. OneTransactionPerRequest'
  <2>1. \A n \in DOMAIN transactions :
          /\ transactions'[n] = transactions[n]
          /\ transactions'[n].request # r
    BY CommitFacts
  <2>2. transactions'[Len(transactions) + 1].request = r
    BY CommitFacts
  <2>3. \A n \in DOMAIN transactions' :
          n \in DOMAIN transactions \/ n = Len(transactions) + 1
    BY CommitFacts
  <2>4. QED
    BY <2>1, <2>2, <2>3 DEF OneTransactionPerRequest
<1>6. ASSUME NEW k \in Handlers PROVE (LocalsAt(k) /\ LockProtects(k))'
  <2>1. CASE k = h
    BY <1>1, <1>4, <2>1 DEF LocalsAt, LockProtects, Booked, SettlementTypeOK,
       PostingTypeOK
  <2>2. CASE k # h
    <3>1. /\ pc'[k] = pc[k]
          /\ doing'[k] = doing[k]
          /\ answer'[k] = answer[k]
          /\ inserted'[k] = inserted[k]
          /\ entries'[k] = entries[k]
          /\ TransactionRow(k)' = TransactionRow(k)
          /\ \A n : WalletRow(k, n)' = WalletRow(k, n)
      BY <1>1, <2>2 DEF Forget, SettlementTypeOK, PostingTypeOK,
         TransactionRow, WalletRow
    <3>2. pc[k] \in PostingStates \ {"aborted"} =>
            requestLock'[doing[k]] = k /\ doing[k] # r
      BY <1>1, <2>2 DEF Release, LocalsAt, LockProtects, SettlementTypeOK,
         PostingTypeOK
    <3>3. LocalsAt(k)'
      BY <3>1 DEF LocalsAt
    <3>4. LockProtects(k)'
      BY <3>1, <3>2, CommitFacts DEF LockProtects, Booked
    <3>5. QED
      BY <3>3, <3>4
  <2>3. QED
    BY <2>1, <2>2
<1>7. QED
  BY <1>4, <1>5, <1>6

(* A new request is not worked on by anybody.                              *)
LEMMA InitiatePreserves ==
  ASSUME SettlementInv, NEW r \in Requests, Initiate(r)
  PROVE  SettlementInv'
<1> USE PostingAssumption DEF SettlementInv, Initiate
<1>1. SettlementTypeOK'
  BY DEF SettlementTypeOK, PostingTypeOK, localVars, lockVars, ledgerVars,
     billingVars, Unpaid
<1>2. OneTransactionPerRequest'
  BY DEF OneTransactionPerRequest, ledgerVars
<1>3. ASSUME NEW k \in Handlers PROVE (LocalsAt(k) /\ LockProtects(k))'
  BY DEF LocalsAt, LockProtects, Booked, TransactionRow, WalletRow,
     HasTransaction, localVars, lockVars, ledgerVars
<1>4. QED
  BY <1>1, <1>2, <1>3

(* What bills amount to is a number.                                       *)
LEMMA SumBillsType ==
  ASSUME NEW B \in SUBSET Bills
  PROVE  IsFiniteSet(B) /\ SumBills(B) \in Nat
<1> DEFINE f == [b \in Bills |-> Price[SubscriptionOf[b]]]
<1>1. IsFiniteSet(B) BY SettlementAssumption, FS_Subset DEF SettlementAssumption
<1>2. \A b \in B : f[b] \in Nat BY SettlementAssumption DEF SettlementAssumption
<1> HIDE DEF f
<1>3. SumFunctionOnSet(f, B) \in Nat BY <1>1, <1>2, SumNat
<1> QED BY <1>1, <1>3 DEF SumBills, f

(* A new invoice touches nothing but its row.                              *)
LEMMA CreateInvoicePreserves ==
  ASSUME SettlementInv, NEW i \in Invoices, CreateInvoice(i)
  PROVE  SettlementInv'
<1> USE DEF SettlementInv
<1>1. BillsOf[i] \in SUBSET Bills /\ Surcharge[i] \in Nat
  BY SettlementAssumption DEF SettlementAssumption
<1>2. AmountAsked(BillsOf[i]) \in Nat
  BY <1>1, SumBillsType DEF AmountAsked, PaidBills
<1>3. PICK due \in Nat :
        invoice' = [invoice EXCEPT ![i] = [status |-> "NOT_PAID", paid |-> 0, due |-> due]]
  <2> DEFINE asked == AmountAsked(BillsOf[i])
  <2>1. asked + Surcharge[i] \in Nat BY <1>1, <1>2
  <2>2. invoice' = [invoice EXCEPT ![i] = [status |-> "NOT_PAID", paid |-> 0,
                                           due |-> asked + Surcharge[i]]]
    BY DEF CreateInvoice
  <2> HIDE DEF asked
  <2> QED BY <2>1, <2>2
<1>4. UNCHANGED <<postingVars, bill, subscription>>
  BY DEF CreateInvoice
<1>5. SettlementTypeOK'
  BY <1>3, <1>4 DEF SettlementTypeOK, PostingTypeOK, postingVars, localVars,
     lockVars, ledgerVars
<1>6. OneTransactionPerRequest'
  BY <1>4 DEF OneTransactionPerRequest, postingVars, ledgerVars
<1>7. ASSUME NEW k \in Handlers PROVE (LocalsAt(k) /\ LockProtects(k))'
  BY <1>4 DEF LocalsAt, LockProtects, Booked, TransactionRow, WalletRow,
     HasTransaction, postingVars, localVars, lockVars, ledgerVars
<1> QED BY <1>5, <1>6, <1>7

(* A step that changes nothing changes no part of the invariant.           *)
LEMMA StutterPreserves ==
  ASSUME SettlementInv, UNCHANGED settlementVars
  PROVE  SettlementInv'
BY DEF SettlementInv, SettlementTypeOK, PostingTypeOK,
   OneTransactionPerRequest, LocalsAt, LockProtects, Booked, TransactionRow,
   WalletRow, HasTransaction, settlementVars, postingVars, localVars, lockVars,
   ledgerVars, billingVars

(* Every step of the confirmations preserves the invariant.                *)
LEMMA NextPreserves ==
  ASSUME SettlementInv, [SettlementNext]_settlementVars
  PROVE  SettlementInv'
<1>1. CASE UNCHANGED settlementVars
  BY <1>1, StutterPreserves
<1>2. ASSUME NEW r \in Requests, Initiate(r) PROVE SettlementInv'
  BY <1>2, InitiatePreserves
<1>6. ASSUME NEW i \in Invoices, CreateInvoice(i) PROVE SettlementInv'
  BY <1>6, CreateInvoicePreserves
<1>3. ASSUME NEW h \in Handlers, ConfirmStep(h) PROVE SettlementInv'
  BY <1>3, VerifyPreserves, SaveRequestPreserves, CheckPreserves,
     InsertPreserves, CreatePreserves, SaveWalletPreserves, CommitPreserves,
     RollbackPreserves
  DEF ConfirmStep, PostingStep
<1>4. ASSUME NEW h \in Handlers, ConfirmEvent(h) PROVE SettlementInv'
  BY <1>4, ValidatePreserves, StutterPreserves, ReadFailsPreserves,
     RollbackPreserves
  DEF ConfirmEvent, AnswerPaid
<1>5. QED
  BY <1>1, <1>2, <1>3, <1>4, <1>6 DEF SettlementNext

(* The strengthened invariant holds in every behaviour.                    *)
THEOREM SettlementInvariant == SettlementSpec => []SettlementInv
<1>1. SettlementInit => SettlementInv
  BY InitHolds
<1>2. SettlementInv /\ [SettlementNext]_settlementVars => SettlementInv'
  BY NextPreserves
<1>3. QED
  BY <1>1, <1>2, PTL DEF SettlementSpec

(* Every variable of the confirmations keeps its type.                     *)
THEOREM SettlementTypeCorrect == SettlementSpec => []SettlementTypeOK
<1>1. SettlementInv => SettlementTypeOK
  BY DEF SettlementInv
<1>2. QED
  BY <1>1, SettlementInvariant, PTL

(* However many confirmations of a request overlap, in however many        *)
(* processes, at most one payment transaction is committed for it.         *)
THEOREM OneTransaction == SettlementSpec => []OneTransactionPerRequest
<1>1. SettlementInv => OneTransactionPerRequest
  BY DEF SettlementInv
<1>2. QED
  BY <1>1, SettlementInvariant, PTL

-----------------------------------------------------------------------------
(* The books.  With the invariant above, the payment request, the payment  *)
(* transaction and the wallet transaction of one payment agree.            *)

(* Only a commit changes the books and the bills; a request changes in a   *)
(* commit or when it is created, and an invoice too.                       *)
LEMMA StepCases ==
  ASSUME SettlementInv, [SettlementNext]_settlementVars
  PROVE  \/ \E h \in Handlers : CommitSettlement(h)
         \/ /\ UNCHANGED <<ledgerVars, billingVars>>
            /\ \/ UNCHANGED request
               \/ \E r \in Requests : Initiate(r)
         \/ /\ UNCHANGED <<ledgerVars, request, bill, subscription>>
            /\ \E i \in Invoices : CreateInvoice(i)
<1>1. CASE UNCHANGED settlementVars
  BY <1>1 DEF settlementVars, postingVars
<1>6. CASE \E i \in Invoices : CreateInvoice(i)
  BY <1>6 DEF CreateInvoice, postingVars
<1>2. CASE \E r \in Requests : Initiate(r)
  BY <1>2 DEF Initiate
<1>3. ASSUME NEW h \in Handlers, ConfirmStep(h), ~ CommitSettlement(h)
      PROVE  UNCHANGED <<ledgerVars, billingVars, request>>
  BY <1>3 DEF ConfirmStep, PostingStep, Verify, SaveRequest,
     CheckNoTransaction, InsertTransaction, CreateWalletTransaction, SaveWallet,
     RollbackSettlement, RollbackPosting
<1>4. ASSUME NEW h \in Handlers, ConfirmEvent(h)
      PROVE  UNCHANGED <<ledgerVars, billingVars, request>>
  BY <1>4 DEF ConfirmEvent, ValidatePayment, AnswerPaid, ReadFails,
     FailSettlement, RollbackPosting, settlementVars, postingVars
<1>5. QED
  BY <1>1, <1>2, <1>3, <1>4, <1>6 DEF SettlementNext

(* An invoice is created before any request for it, and never goes away.   *)
InvoiceFirst ==
  /\ \A r \in Credits :
       request[r].status # "absent" => invoice[InvoiceOf[r]].status # "absent"
  /\ \A h \in Handlers :
       pc[h] # "idle" => invoice[InvoiceOf[doing[h]]].status # "absent"
  /\ \A n \in DOMAIN transactions :
       /\ transactions[n].request \in Credits
       /\ invoice[InvoiceOf[transactions[n].request]].status # "absent"

(* A confirmation keeps to the request it has begun with, which was there. *)
LEMMA DoingStep ==
  ASSUME SettlementInv, [SettlementNext]_settlementVars, NEW k \in Handlers,
         pc'[k] # "idle"
  PROVE  \/ pc[k] # "idle" /\ doing'[k] = doing[k]
         \/ doing'[k] \in Credits /\ request[doing'[k]].status # "absent"
<1> USE DEF SettlementInv, SettlementTypeOK, PostingTypeOK
<1>1. CASE \/ UNCHANGED settlementVars
           \/ \E i \in Invoices : CreateInvoice(i)
           \/ \E r \in Requests : Initiate(r)
  BY <1>1 DEF settlementVars, postingVars, localVars, CreateInvoice, Initiate
<1>2. ASSUME NEW h \in Handlers, NEW r \in Requests, ValidatePayment(h, r)
      PROVE  \/ pc[k] # "idle" /\ doing'[k] = doing[k]
             \/ doing'[k] \in Credits /\ request[doing'[k]].status # "absent"
  BY <1>2 DEF ValidatePayment, Goto
<1>3. ASSUME NEW h \in Handlers, ConfirmStep(h) \/ ReadFails(h) \/ FailSettlement(h)
      PROVE  pc[k] # "idle" /\ doing'[k] = doing[k]
  <2>1. CASE k = h
    BY <1>3, <2>1 DEF ConfirmStep, PostingStep, Goto, Verify,
       SaveRequest, CheckNoTransaction, InsertTransaction,
       CreateWalletTransaction, SaveWallet, CommitSettlement,
       RollbackSettlement, ReadFails, FailSettlement
  <2>2. CASE k # h
    BY <1>3, <2>2 DEF ConfirmStep, PostingStep, Goto, Forget, Verify,
       SaveRequest, CheckNoTransaction, InsertTransaction,
       CreateWalletTransaction, SaveWallet, CommitSettlement, CommitPosting,
       RollbackSettlement, RollbackPosting, ReadFails, FailSettlement
  <2> QED BY <2>1, <2>2
<1>4. ASSUME NEW h \in Handlers, NEW r \in Requests, AnswerPaid(h, r)
      PROVE  UNCHANGED settlementVars
  BY <1>4 DEF AnswerPaid
<1> QED BY <1>1, <1>2, <1>3, <1>4 DEF SettlementNext, ConfirmEvent

(* No step takes an invoice away, and requests are made for those there.   *)
LEMMA InvoiceFirstPreserved ==
  ASSUME SettlementInv, InvoiceFirst, [SettlementNext]_settlementVars
  PROVE  InvoiceFirst'
<1> USE DEF SettlementInv, SettlementTypeOK, PostingTypeOK
<1>1. ASSUME NEW i \in Invoices, invoice[i].status # "absent"
      PROVE  invoice'[i].status # "absent"
  <2>1. ASSUME NEW h \in Handlers, CommitSettlement(h) PROVE invoice'[i].status # "absent"
    <3>1. invoice' = UpdatedInvoice(InvoiceOf[doing[h]], PaidRequest(h).status)
      BY <2>1 DEF CommitSettlement
    <3>2. PaidRequest(h).status # "absent" BY DEF PaidRequest
    <3> QED BY <1>1, <3>1, <3>2 DEF UpdatedInvoice
  <2>2. ASSUME NEW j \in Invoices, CreateInvoice(j) PROVE invoice'[i] = invoice[i]
    BY <1>1, <2>2 DEF CreateInvoice
  <2>3. CASE UNCHANGED billingVars
    BY <1>1, <2>3 DEF billingVars
  <2> QED BY <1>1, <2>1, <2>2, <2>3, StepCases
<1>2. \A r \in Credits : InvoiceOf[r] \in Invoices
  BY SettlementAssumption DEF SettlementAssumption
<1>3. ASSUME NEW k \in Handlers, pc'[k] # "idle"
      PROVE  invoice'[InvoiceOf[doing'[k]]].status # "absent"
  <2>1. pc[k] # "idle" => doing[k] \in Credits BY DEF LocalsAt
  <2>2. doing'[k] \in Credits /\ invoice[InvoiceOf[doing'[k]]].status # "absent"
    BY <1>3, <2>1, DoingStep DEF InvoiceFirst
  <2> QED BY <1>1, <1>2, <2>2
<1>4. ASSUME NEW r \in Credits, request'[r].status # "absent"
      PROVE  invoice'[InvoiceOf[r]].status # "absent"
  <2>1. CASE request'[r] = request[r]
    BY <1>1, <1>2, <1>4, <2>1 DEF InvoiceFirst
  <2>2. ASSUME NEW q \in Requests, Initiate(q), request'[r] # request[r]
        PROVE  invoice[InvoiceOf[r]].status # "absent"
    <3>1. r = q BY <2>2 DEF Initiate
    <3> QED BY <2>2, <3>1 DEF Initiate
  <2>3. ASSUME NEW h \in Handlers, CommitSettlement(h), request'[r] # request[r]
        PROVE  invoice[InvoiceOf[r]].status # "absent"
    <3>1. r = doing[h] /\ pc[h] # "idle" BY <2>3 DEF CommitSettlement, Goto
    <3> QED BY <3>1 DEF InvoiceFirst
  <2> QED BY <1>1, <1>2, <2>1, <2>2, <2>3, StepCases
<1>5. ASSUME NEW n \in DOMAIN transactions'
      PROVE  /\ transactions'[n].request \in Credits
             /\ invoice'[InvoiceOf[transactions'[n].request]].status # "absent"
  <2>1. CASE n \in DOMAIN transactions /\ transactions'[n] = transactions[n]
    BY <1>1, <1>2, <2>1 DEF InvoiceFirst
  <2>2. ASSUME NEW h \in Handlers, CommitSettlement(h), n = Len(transactions) + 1
        PROVE  /\ transactions'[n].request \in Credits
               /\ invoice[InvoiceOf[transactions'[n].request]].status # "absent"
    <3>1. transactions'[n].request = doing[h] /\ doing[h] \in Credits
      BY <2>2, CommitFacts
    <3>2. pc[h] # "idle" BY <2>2 DEF CommitSettlement, Goto
    <3> QED BY <3>1, <3>2 DEF InvoiceFirst
  <2>3. CASE UNCHANGED ledgerVars BY <1>5, <2>1, <2>3 DEF ledgerVars
  <2>4. CASE \E h \in Handlers : CommitSettlement(h)
    BY <1>1, <1>2, <1>5, <2>1, <2>2, <2>4, CommitFacts
  <2> QED BY <2>3, <2>4, StepCases
<1> QED BY <1>3, <1>4, <1>5 DEF InvoiceFirst

(* A request, and a confirmation that is under way, has its invoice.       *)
THEOREM InvoicesComeFirst == SettlementSpec => []InvoiceFirst
<1>1. SettlementInit => InvoiceFirst
  BY DEF SettlementInit, PostingInit, InvoiceFirst, Absent
<1>2. SettlementInv /\ InvoiceFirst /\ [SettlementNext]_settlementVars => InvoiceFirst'
  BY InvoiceFirstPreserved
<1> QED BY <1>1, <1>2, SettlementInvariant, PTL DEF SettlementSpec

(* The commit that marks a request paid is the one that appends its        *)
(* transaction.                                                            *)
LEMMA SettledMatchesPreserved ==
  ASSUME SettlementInv, InvoiceFirst, SettledMatchesTransaction,
         [SettlementNext]_settlementVars
  PROVE  SettledMatchesTransaction'
<1> USE DEF SettledMatchesTransaction
<1>1. CASE UNCHANGED <<ledgerVars, billingVars, request>>
  BY <1>1 DEF ledgerVars, billingVars, HasTransaction
<1>5. ASSUME NEW i \in Invoices, CreateInvoice(i)
      PROVE  SettledMatchesTransaction'
  <2>1. /\ UNCHANGED <<transactions, request>>
        /\ \A j \in Invoices : j # i => invoice'[j] = invoice[j]
    BY <1>5 DEF CreateInvoice, postingVars, ledgerVars, SettlementInv,
       SettlementTypeOK
  <2>2. ASSUME NEW n \in DOMAIN transactions
        PROVE  invoice'[InvoiceOf[transactions[n].request]] =
                 invoice[InvoiceOf[transactions[n].request]]
    <3> DEFINE r == transactions[n].request
    <3>1. r \in Credits /\ invoice[InvoiceOf[r]].status # "absent"
      BY DEF InvoiceFirst
    <3>3. InvoiceOf[r] \in Invoices
      BY <3>1, SettlementAssumption DEF SettlementAssumption
    <3> QED BY <1>5, <2>1, <3>1, <3>3 DEF CreateInvoice
  <2> QED BY <2>1, <2>2 DEF HasTransaction
<1>2. ASSUME NEW q \in Requests, Initiate(q)
      PROVE  SettledMatchesTransaction'
  <2>1. /\ request[q].status = "absent"
        /\ request' = [request EXCEPT ![q] = Unpaid]
        /\ UNCHANGED <<transactions, invoice>>
    BY <1>2 DEF Initiate, ledgerVars, billingVars
  <2>2. \A n \in DOMAIN transactions :
          request'[transactions[n].request] = request[transactions[n].request]
    BY <2>1
  <2>3. \A r \in Credits \ {q} : request'[r] = request[r]
    BY <2>1
  <2>4. q \in Credits => request'[q].status = "NOT_PAID"
    BY <2>1 DEF Unpaid, SettlementInv, SettlementTypeOK, PostingTypeOK
  <2>5. QED
    BY <2>1, <2>2, <2>3, <2>4 DEF HasTransaction
<1>3. ASSUME NEW h \in Handlers, CommitSettlement(h)
      PROVE  SettledMatchesTransaction'
  <2> DEFINE d == doing[h]
  <2>1. /\ request'[d] = PaidRequest(h)
        /\ \A r \in Requests \ {d} : request'[r] = request[r]
    <3>1. d \in Requests
      BY <1>3, CommitFacts
    <3>2. DOMAIN request = Requests
      BY DEF SettlementInv, SettlementTypeOK, PostingTypeOK
    <3>3. request' = [request EXCEPT ![d] = PaidRequest(h)]
      BY <1>3 DEF CommitSettlement
    <3>4. QED
      BY <3>1, <3>2, <3>3
  <2>2. \A r \in Credits :
          request'[r].status \in {"PAID", "PARTIALLY_PAID"} =>
            HasTransaction(r)'
    BY <1>3, <2>1, CommitFacts
  <2>3. ASSUME NEW n \in DOMAIN transactions
        PROVE  /\ transactions'[n] = transactions[n]
               /\ transactions[n].request \in Requests \ {d}
    BY <1>3, CommitFacts
  <2>4. /\ transactions'[Len(transactions) + 1].request = d
        /\ transactions'[Len(transactions) + 1].amount = answer[h].amount
    BY <1>3, CommitFacts
  <2>5. \A n \in DOMAIN transactions' :
          n \in DOMAIN transactions \/ n = Len(transactions) + 1
    BY <1>3, CommitFacts
  <2>6. \A j \in Invoices : invoice'[j].due = invoice[j].due
    BY <1>3 DEF CommitSettlement, UpdatedInvoice, SettlementInv, SettlementTypeOK
  <2>7. ASSUME NEW r \in Credits PROVE InvoiceOf[r] \in Invoices
    BY SettlementAssumption DEF SettlementAssumption
  <2>8. d \in Credits /\ \A n \in DOMAIN transactions : transactions[n].request \in Credits
    BY <1>3, CommitFacts DEF InvoiceFirst
  <2>9. QED
    BY <2>1, <2>2, <2>3, <2>4, <2>5, <2>6, <2>7, <2>8 DEF PaidRequest
<1>4. QED
  BY <1>1, <1>2, <1>3, <1>5, StepCases

(* A credit request is marked paid exactly when its payment transaction is *)
(* committed, with the same amount and the status that amount calls for.   *)
THEOREM SettledMatches == SettlementSpec => []SettledMatchesTransaction
<1>1. SettlementInit => SettledMatchesTransaction
  BY DEF SettlementInit, PostingInit, SettledMatchesTransaction, Absent
<1>2. SettlementInv /\ InvoiceFirst /\ SettledMatchesTransaction
        /\ [SettlementNext]_settlementVars => SettledMatchesTransaction'
  BY SettledMatchesPreserved
<1>3. QED
  BY <1>1, <1>2, SettlementInvariant, InvoicesComeFirst, PTL DEF SettlementSpec

(* Once it has a payment transaction, no later confirmation changes a      *)
(* request: the transaction that would do it is rolled back as a whole.    *)
THEOREM SettledFrozen == SettlementSpec => SettledRequestFrozen
<1> DEFINE Frozen ==
      \A r \in Credits : HasTransaction(r) => request'[r] = request[r]
<1>1. ASSUME SettlementInv, SettledMatchesTransaction,
             [SettlementNext]_settlementVars
      PROVE  Frozen
  <2>1. ASSUME NEW q \in Requests, Initiate(q) PROVE Frozen
    <3>1. ~ HasTransaction(q)
      BY <1>1, <2>1 DEF Initiate, SettledMatchesTransaction, HasTransaction
    <3>2. QED
      BY <2>1, <3>1 DEF Initiate
  <2>2. ASSUME NEW h \in Handlers, CommitSettlement(h) PROVE Frozen
    <3>1. ~ HasTransaction(doing[h])
      BY <1>1, <2>2, CommitFacts
    <3>2. request' = [request EXCEPT ![doing[h]] = PaidRequest(h)]
      BY <2>2 DEF CommitSettlement
    <3>3. QED
      BY <3>1, <3>2
  <2>3. CASE UNCHANGED request
    BY <2>3
  <2>4. QED
    BY <1>1, <2>1, <2>2, <2>3, StepCases DEF billingVars
<1>2. SettlementInv /\ SettledMatchesTransaction
        /\ [SettlementNext]_settlementVars => [Frozen]_settlementVars
  BY <1>1
<1>3. QED
  BY <1>2, SettlementInvariant, SettledMatches, PTL
  DEF SettlementSpec, SettledRequestFrozen

(* Every committed payment transaction has its wallet transaction, at the  *)
(* same place and with the same amount.                                    *)
LEMMA BooksAgreePreserved ==
  ASSUME SettlementInv, BooksAgree, [SettlementNext]_settlementVars
  PROVE  BooksAgree'
<1>1. CASE UNCHANGED ledgerVars
  BY <1>1 DEF BooksAgree, ledgerVars
<1>2. ASSUME NEW h \in Handlers, CommitSettlement(h) PROVE BooksAgree'
  <2>1. PICK before \in Int :
          /\ Len(walletTransactions') = Len(walletTransactions) + 1
          /\ DOMAIN walletTransactions = 1 .. Len(walletTransactions)
          /\ \A n \in 1 .. Len(walletTransactions) :
               walletTransactions'[n] = walletTransactions[n]
          /\ walletTransactions'[Len(walletTransactions) + 1] =
               WalletRow(h, before)
    BY <1>2, CommitWallet
  <2>2. /\ WalletRow(h, before).request = TransactionRow(h).request
        /\ WalletRow(h, before).amount = TransactionRow(h).amount
    BY DEF WalletRow, TransactionRow
  <2>3. QED
    BY <1>2, <2>1, <2>2, CommitFacts DEF BooksAgree
<1>3. QED
  BY <1>1, <1>2, StepCases

(* A payment is never booked in one of the two tables only: when a read    *)
(* fails between the two inserts the first one is rolled back.             *)
THEOREM BooksAlwaysAgree == SettlementSpec => []BooksAgree
<1>1. SettlementInit => BooksAgree
  BY DEF SettlementInit, PostingInit, BooksAgree
<1>2. SettlementInv /\ BooksAgree /\ [SettlementNext]_settlementVars
        => BooksAgree'
  BY BooksAgreePreserved
<1>3. QED
  BY <1>1, <1>2, SettlementInvariant, PTL DEF SettlementSpec

(* No confirmation writes an amount paid to an invoice, so none has one to *)
(* spread over its bills.                                                  *)
AmountsStayZero ==
  /\ \A i \in Invoices : invoice[i].paid = 0
  /\ \A b \in Bills : bill[b].paid = 0 /\ bill[b].status # "absent"

(* What a commit spreads over the bills of its invoice is nothing.         *)
LEMMA AmountsKept ==
  ASSUME SettlementInv, AmountsStayZero, [SettlementNext]_settlementVars
  PROVE  AmountsStayZero'
<1> USE DEF SettlementInv, SettlementTypeOK
<1>1. ASSUME NEW h \in Handlers, CommitSettlement(h) PROVE AmountsStayZero'
  <2> DEFINE i == InvoiceOf[doing[h]]
             status == PaidRequest(h).status
  <2>1. i \in Invoices
    BY <1>1, CommitFacts, SettlementAssumption DEF SettlementAssumption
  <2>2. invoice' = UpdatedInvoice(i, status) /\ bill' = UpdatedBill(i, status)
    BY <1>1 DEF CommitSettlement
  <2>3. status # "absent" BY DEF PaidRequest
  <2>4. ASSUME NEW b \in BillsOf[i] PROVE PerBill(i) = 0
    <3>1. IsFiniteSet(BillsOf[i])
      BY <2>1, SettlementAssumption, FS_Subset DEF SettlementAssumption
    <3>2. Cardinality(BillsOf[i]) \in Nat /\ Cardinality(BillsOf[i]) # 0
      BY <3>1, <2>4, FS_CardinalityType, FS_EmptySet
    <3>3. invoice[i].paid = 0 BY <2>1 DEF AmountsStayZero
    <3>4. \A n \in Nat : n # 0 => 0 \div n = 0 OBVIOUS
    <3> QED BY <3>2, <3>3, <3>4 DEF PerBill
  <2>5. \A j \in Invoices : invoice'[j].paid = invoice[j].paid
    BY <2>2 DEF UpdatedInvoice
  <2>6. ASSUME NEW b \in Bills PROVE bill'[b].paid = 0 /\ bill'[b].status # "absent"
    <3> HIDE DEF status, i
    <3>1. bill'[b] = IF b \in BillsOf[i] THEN [status |-> status, paid |-> PerBill(i)]
                                        ELSE bill[b]
      BY <2>2 DEF UpdatedBill
    <3> QED BY <2>3, <2>4, <3>1 DEF AmountsStayZero
  <2> QED BY <2>5, <2>6 DEF AmountsStayZero
<1>2. ASSUME NEW i \in Invoices, CreateInvoice(i) PROVE AmountsStayZero'
  BY <1>2 DEF CreateInvoice, AmountsStayZero
<1>3. CASE UNCHANGED billingVars
  BY <1>3 DEF billingVars, AmountsStayZero
<1> QED BY <1>1, <1>2, <1>3, StepCases

(* So in every behaviour the amounts paid of invoices and bills stay 0.    *)
LEMMA AmountsNeverSpread == SettlementSpec => []AmountsStayZero
<1>1. SettlementInit => AmountsStayZero
  BY DEF SettlementInit, AmountsStayZero, NoInvoice, Unpaid
<1> QED BY <1>1, AmountsKept, SettlementInvariant, PTL DEF SettlementSpec

(* A commit gives its invoice the status of the request it settles, which  *)
(* no later step changes, and its bills the status of the invoice.         *)
LEMMA StatusesPreserved ==
  ASSUME SettlementInv, AmountsStayZero, SettledMatchesTransaction,
         StatusesHaveASource, [SettlementNext]_settlementVars
  PROVE  StatusesHaveASource'
<1> USE DEF StatusesHaveASource
<1>1. CASE UNCHANGED <<ledgerVars, billingVars, request>>
  BY <1>1 DEF ledgerVars, billingVars, HasTransaction
<1>2. ASSUME NEW q \in Requests, Initiate(q)
      PROVE  StatusesHaveASource'
  <2>1. ~ HasTransaction(q)
    BY <1>2 DEF Initiate, SettledMatchesTransaction, HasTransaction
  <2>2. \A r \in Credits : HasTransaction(r) => /\ HasTransaction(r)'
                                               /\ request'[r] = request[r]
    BY <1>2, <2>1 DEF Initiate, ledgerVars, HasTransaction
  <2>3. UNCHANGED <<invoice, bill>>
    BY <1>2 DEF Initiate, billingVars
  <2>4. QED
    BY <2>2, <2>3
<1>5. ASSUME NEW i \in Invoices, CreateInvoice(i)
      PROVE  StatusesHaveASource'
  <2>1. /\ UNCHANGED <<request, bill, ledgerVars>>
        /\ invoice[i].status = "absent" /\ invoice'[i].status = "NOT_PAID"
        /\ \A j \in Invoices : j # i => invoice'[j] = invoice[j]
    BY <1>5 DEF CreateInvoice, postingVars, SettlementInv, SettlementTypeOK
  <2>2. \A r \in Credits : HasTransaction(r)' <=> HasTransaction(r)
    BY <2>1 DEF ledgerVars, HasTransaction
  <2>3. ASSUME NEW b \in Bills, bill'[b].status # "NOT_PAID"
        PROVE  \E j \in Invoices : b \in BillsOf[j] /\ invoice'[j].status = bill'[b].status
    <3>1. PICK j \in Invoices : b \in BillsOf[j] /\ invoice[j].status = bill[b].status
      BY <2>1, <2>3
    <3>2. bill[b].status # "absent" BY DEF AmountsStayZero
    <3> QED BY <2>1, <3>1, <3>2
  <2> QED BY <2>1, <2>2, <2>3
<1>3. ASSUME NEW h \in Handlers, CommitSettlement(h)
      PROVE  StatusesHaveASource'
  <2> DEFINE d == doing[h]
             i == InvoiceOf[d]
             status == PaidRequest(h).status
  <2>1. /\ d \in Credits
        /\ ~ HasTransaction(d)
        /\ \A q : HasTransaction(q)' <=> HasTransaction(q) \/ q = d
    BY <1>3, CommitFacts
  <2>2. /\ i \in Invoices
        /\ invoice' = UpdatedInvoice(i, status)
        /\ bill' = UpdatedBill(i, status)
        /\ request' = [request EXCEPT ![d] = PaidRequest(h)]
    BY <1>3, <2>1, SettlementAssumption
    DEF CommitSettlement, SettlementAssumption
  <2>3. /\ request'[d].status = status
        /\ \A r \in Credits \ {d} : request'[r] = request[r]
    BY <2>1, <2>2 DEF SettlementInv, SettlementTypeOK, PostingTypeOK
  <2>4. /\ invoice'[i].status = status
        /\ \A j \in Invoices \ {i} : invoice'[j].status = invoice[j].status
    BY <2>2 DEF UpdatedInvoice, SettlementInv, SettlementTypeOK
  <2>5. \A b \in Bills : bill'[b].status = IF b \in BillsOf[i]
                                            THEN status ELSE bill[b].status
    BY <2>2 DEF UpdatedBill
  <2>6. ASSUME NEW j \in Invoices, invoice'[j].status \notin {"absent", "NOT_PAID"}
        PROVE  \E r \in Credits : /\ InvoiceOf[r] = j
                                  /\ HasTransaction(r)'
                                  /\ request'[r].status = invoice'[j].status
    <3>1. CASE j = i
      BY <2>1, <2>3, <2>4, <3>1
    <3>2. CASE j # i
      BY <2>1, <2>3, <2>4, <2>6, <3>2
    <3>3. QED
      BY <3>1, <3>2
  <2>7. ASSUME NEW b \in Bills, bill'[b].status # "NOT_PAID"
        PROVE  \E j \in Invoices : /\ b \in BillsOf[j]
                                   /\ invoice'[j].status = bill'[b].status
    <3>1. CASE b \in BillsOf[i]
      BY <2>2, <2>4, <2>5, <3>1
    <3>2. CASE b \notin BillsOf[i]
      BY <2>4, <2>5, <2>7, <3>2
    <3>3. QED
      BY <3>1, <3>2
  <2>8. QED
    BY <2>6, <2>7
<1>4. QED
  BY <1>1, <1>2, <1>3, <1>5, StepCases

(* The status of an invoice comes from a settled request for it, and that  *)
(* of a bill from an invoice that groups it, whatever overlaps.            *)
THEOREM StatusesAreSourced == SettlementSpec => []StatusesHaveASource
<1>1. SettlementInit => StatusesHaveASource
  BY DEF SettlementInit, StatusesHaveASource, Unpaid, NoInvoice
<1>2. SettlementInv /\ AmountsStayZero /\ SettledMatchesTransaction
        /\ StatusesHaveASource /\ [SettlementNext]_settlementVars
        => StatusesHaveASource'
  BY StatusesPreserved
<1>3. QED
  BY <1>1, <1>2, SettlementInvariant, AmountsNeverSpread, SettledMatches, PTL
  DEF SettlementSpec

-----------------------------------------------------------------------------
(* The wallet behind the confirmations: a line starts from a balance the   *)
(* wallet had.                                                             *)
PastBalance(n) ==
  \/ n = Opening
  \/ \E i \in DOMAIN walletTransactions : n = walletTransactions[i].after

(* The wallet and every uncommitted wallet transaction hold a balance the  *)
(* wallet has had.                                                         *)
PastInv ==
  /\ StartsFromPastBalance
  /\ PastBalance(balance)
  /\ \A h \in Handlers :
       pc[h] \in {"saveWallet", "posted"} => PastBalance(entries[h][1].previous)

(* What the steps that do not commit leave: the wallet, and an uncommitted *)
(* wallet transaction unless the handler builds it in this very step.      *)
LEMMA EntriesStep ==
  ASSUME SettlementInv, [SettlementNext]_settlementVars,
         \A h \in Handlers : ~ CommitSettlement(h),
         NEW k \in Handlers, pc'[k] \in {"saveWallet", "posted"}
  PROVE  \/ /\ entries'[k] = entries[k]
            /\ pc[k] \in {"saveWallet", "posted"}
         \/ /\ CreateWalletTransaction(k)
            /\ entries'[k] = <<WalletRow(k, balance)>>
<1> USE DEF SettlementInv, SettlementTypeOK, PostingTypeOK
<1>1. CASE UNCHANGED settlementVars
  BY <1>1 DEF settlementVars, postingVars, localVars
<1>2. CASE \/ \E r \in Requests : Initiate(r)
           \/ \E i \in Invoices : CreateInvoice(i)
  BY <1>2 DEF Initiate, CreateInvoice, postingVars, localVars
<1>3. ASSUME NEW h \in Handlers, ConfirmStep(h) \/ ConfirmEvent(h), k # h
      PROVE  entries'[k] = entries[k] /\ pc'[k] = pc[k]
  BY <1>3 DEF ConfirmStep, ConfirmEvent, PostingStep, Goto, Forget, Verify,
     SaveRequest, CheckNoTransaction, InsertTransaction,
     CreateWalletTransaction, SaveWallet, CommitSettlement, CommitPosting,
     RollbackSettlement, RollbackPosting, ValidatePayment, AnswerPaid,
     ReadFails, FailSettlement, settlementVars, postingVars, localVars
<1>4. ASSUME ConfirmStep(k) \/ ConfirmEvent(k)
      PROVE  \/ /\ entries'[k] = entries[k]
                /\ pc[k] \in {"saveWallet", "posted"}
             \/ /\ CreateWalletTransaction(k)
                /\ entries'[k] = <<WalletRow(k, balance)>>
  <2>1. CASE CreateWalletTransaction(k)
    BY <2>1 DEF CreateWalletTransaction
  <2>2. CASE SaveWallet(k)
    BY <2>2 DEF SaveWallet, Goto
  <2>3. CASE AnswerPaid(k, doing[k]) \/ UNCHANGED settlementVars
    BY <2>3 DEF AnswerPaid, settlementVars, postingVars, localVars
  <2>4. QED
    BY <1>4, <2>1, <2>2, <2>3 DEF ConfirmStep, ConfirmEvent, PostingStep, Goto,
       Verify, SaveRequest, CheckNoTransaction, InsertTransaction,
       RollbackSettlement, ValidatePayment, AnswerPaid, ReadFails,
       FailSettlement
<1>5. QED
  BY <1>1, <1>2, <1>3, <1>4 DEF SettlementNext

(* What the row of a wallet_transaction holds, field by field.             *)
LEMMA WalletRowFields ==
  \A h, n : /\ WalletRow(h, n).previous = n
            /\ WalletRow(h, n).request = doing[h]
            /\ WalletRow(h, n).amount = answer[h].amount
BY DEF WalletRow

(* Lines are only added, so a balance the wallet has had stays one.        *)
LEMMA PastPreserved ==
  ASSUME SettlementInv, PastInv, [SettlementNext]_settlementVars
  PROVE  PastInv'
<1>1. ASSUME UNCHANGED ledgerVars, \A h \in Handlers : ~ CommitSettlement(h)
      PROVE  PastInv'
  <2>1. \A n : PastBalance(n)' <=> PastBalance(n)
    BY <1>1 DEF PastBalance, ledgerVars
  <2>2. StartsFromPastBalance' /\ PastBalance(balance)'
    BY <1>1, <2>1 DEF PastInv, StartsFromPastBalance, ledgerVars
  <2>3. ASSUME NEW k \in Handlers, pc'[k] \in {"saveWallet", "posted"}
        PROVE  PastBalance(entries'[k][1].previous)
    <3>1. CASE /\ entries'[k] = entries[k]
               /\ pc[k] \in {"saveWallet", "posted"}
      BY <3>1 DEF PastInv
    <3>2. CASE entries'[k] = <<WalletRow(k, balance)>>
      BY <3>2 DEF PastInv, WalletRow
    <3>3. QED
      BY <1>1, <2>3, <3>1, <3>2, EntriesStep
  <2>4. QED
    BY <2>1, <2>2, <2>3 DEF PastInv
<1>2. ASSUME NEW h \in Handlers, CommitSettlement(h) PROVE PastInv'
  <2>1. PICK before \in Int :
          /\ entries[h] = <<WalletRow(h, before)>>
          /\ Len(walletTransactions) \in Nat
          /\ DOMAIN walletTransactions = 1 .. Len(walletTransactions)
          /\ DOMAIN walletTransactions' = 1 .. Len(walletTransactions) + 1
          /\ \A n \in 1 .. Len(walletTransactions) :
               walletTransactions'[n] = walletTransactions[n]
          /\ walletTransactions'[Len(walletTransactions) + 1] =
               WalletRow(h, before)
    BY <1>2, CommitWallet
  <2>2. /\ pc[h] = "posted"
        /\ pc' = [pc EXCEPT ![h] = "idle"]
        /\ entries' = [entries EXCEPT ![h] = <<>>]
        /\ balance' = IF walletLock = h THEN entries[h][1].after ELSE balance
    BY <1>2 DEF CommitSettlement, CommitPosting, Forget, Goto
  <2>3. PastBalance(before)
    BY <2>1, <2>2 DEF PastInv, WalletRow
  <2>4. \A n \in Int : PastBalance(n) => PastBalance(n)'
    BY <2>1 DEF PastBalance
  <2>5. PastBalance(balance)'
    <3>1. CASE walletLock = h
      <4>1. balance' = walletTransactions'[Len(walletTransactions) + 1].after
        BY <2>1, <2>2, <3>1
      <4>2. Len(walletTransactions) + 1 \in DOMAIN walletTransactions'
        BY <2>1
      <4>3. QED
        BY <4>1, <4>2 DEF PastBalance
    <3>2. CASE walletLock # h
      <4>1. PastBalance(balance) /\ balance' = balance
        BY <2>2, <3>2 DEF PastInv
      <4>2. QED
        BY <2>1, <4>1 DEF PastBalance
    <3>3. QED
      BY <3>1, <3>2
  <2>6. StartsFromPastBalance'
    <3>1. ASSUME NEW n \in 1 .. Len(walletTransactions)
          PROVE  \/ walletTransactions'[n].previous = Opening
                 \/ \E j \in 1 .. n - 1 : walletTransactions'[n].previous =
                                            walletTransactions'[j].after
      BY <2>1 DEF PastInv, StartsFromPastBalance
    <3>2. walletTransactions'[Len(walletTransactions) + 1].previous = before
      BY <2>1 DEF WalletRow
    <3>3. \/ before = Opening
          \/ \E j \in 1 .. Len(walletTransactions) :
               before = walletTransactions'[j].after
      BY <2>1, <2>3 DEF PastBalance
    <3>4. QED
      BY <2>1, <3>1, <3>2, <3>3 DEF StartsFromPastBalance
  <2>7. ASSUME NEW k \in Handlers, pc'[k] \in {"saveWallet", "posted"}
        PROVE  PastBalance(entries[k][1].previous)'
    <3>1. k # h
      BY <2>2, <2>7 DEF SettlementInv, SettlementTypeOK, PostingTypeOK
    <3>2. entries'[k] = entries[k] /\ pc'[k] = pc[k]
      BY <2>2, <3>1
    <3>3. PastBalance(entries[k][1].previous)
      BY <2>7, <3>2 DEF PastInv
    <3>4. QED
      BY <2>1, <3>2, <3>3 DEF PastBalance
  <2>8. QED
    BY <2>5, <2>6, <2>7 DEF PastInv
<1>3. QED
  BY <1>1, <1>2, StepCases

(* However confirmations interleave, a wallet transaction starts from a    *)
(* balance the wallet had committed before it.                             *)
THEOREM StartsFromPast == SettlementSpec => []StartsFromPastBalance
<1>1. SettlementInit => PastInv
  BY DEF SettlementInit, PostingInit, PastInv, PastBalance,
     StartsFromPastBalance
<1>2. SettlementInv /\ PastInv /\ [SettlementNext]_settlementVars => PastInv'
  BY PastPreserved
<1>3. PastInv => StartsFromPastBalance
  BY DEF PastInv
<1>4. QED
  BY <1>1, <1>2, <1>3, SettlementInvariant, PTL DEF SettlementSpec

-----------------------------------------------------------------------------
(* Confirmations that do not overlap.                                      *)
OneAtATime == \A h, k \in Api : h = k

(* Nobody else can have moved the balance a confirmation has read.         *)
FreshInv ==
  \A h \in Handlers :
    /\ pc[h] # "idle" => h \in Api
    /\ pc[h] \in {"saveWallet", "posted"} =>
         entries[h] = <<WalletRow(h, balance)>>
    /\ pc[h] = "posted" => walletLock = h

(* With one handler nobody commits between its read of the wallet and its  *)
(* own commit.                                                             *)
LEMMA FreshPreserved ==
  ASSUME OneAtATime, SettlementInv, FreshInv, [SettlementNext]_settlementVars
  PROVE  FreshInv'
<1> USE DEF SettlementInv, SettlementTypeOK, PostingTypeOK
<1>1. CASE UNCHANGED settlementVars
  BY <1>1 DEF settlementVars, postingVars, localVars, lockVars, ledgerVars,
     FreshInv, WalletRow
<1>2. CASE \/ \E r \in Requests : Initiate(r)
           \/ \E i \in Invoices : CreateInvoice(i)
  BY <1>2 DEF Initiate, CreateInvoice, postingVars, localVars, lockVars,
     ledgerVars, FreshInv, WalletRow
<1>3. ASSUME NEW h \in Handlers, ConfirmStep(h) \/ ConfirmEvent(h),
             ~ UNCHANGED settlementVars
      PROVE  FreshInv'
  <2>1. /\ h \in Api
        /\ \A k \in Handlers \ {h} : pc[k] = "idle"
    BY <1>3 DEF ConfirmStep, ConfirmEvent, FreshInv, OneAtATime
  <2>2. \A k \in Handlers \ {h} : pc'[k] = "idle"
    BY <1>3, <2>1 DEF ConfirmStep, ConfirmEvent, PostingStep, Goto, Verify,
       SaveRequest, CheckNoTransaction, InsertTransaction,
       CreateWalletTransaction, SaveWallet, CommitSettlement,
       RollbackSettlement, ValidatePayment, AnswerPaid, ReadFails,
       FailSettlement
  <2>3. /\ pc'[h] \in {"saveWallet", "posted"} =>
             entries'[h] = <<WalletRow(h, balance)'>>
        /\ pc'[h] = "posted" => walletLock' = h
    <3>1. CASE CreateWalletTransaction(h)
      BY <3>1 DEF CreateWalletTransaction, Goto, ledgerVars, WalletRow
    <3>2. CASE SaveWallet(h)
      BY <3>2 DEF SaveWallet, Goto, ledgerVars, WalletRow, FreshInv
    <3>3. CASE ~ CreateWalletTransaction(h) /\ ~ SaveWallet(h)
      BY <1>3, <3>3 DEF ConfirmStep, ConfirmEvent, PostingStep, Goto, Verify,
         SaveRequest, CheckNoTransaction, InsertTransaction, CommitSettlement,
         RollbackSettlement, ValidatePayment, AnswerPaid, ReadFails,
         FailSettlement
    <3>4. QED
      BY <3>1, <3>2, <3>3
  <2>4. QED
    BY <2>1, <2>2, <2>3 DEF FreshInv
<1>4. QED
  BY <1>1, <1>2, <1>3 DEF SettlementNext

(* A commit is a step of the ledger, everything else leaves it alone.      *)
LEMMA StepOfLedger ==
  ASSUME SettlementInv, BooksAgree, FreshInv, [SettlementNext]_settlementVars
  PROVE  [SettlementLedger!Next]_(SettlementLedger!vars)
<1>1. CASE UNCHANGED ledgerVars
  BY <1>1 DEF ledgerVars, SettlementLedger!vars
<1>2. ASSUME NEW h \in Handlers, CommitSettlement(h)
      PROVE  SettlementLedger!Post(doing[h], answer[h].amount)
  <2>1. /\ pc[h] = "posted"
        /\ walletTransactions' = walletTransactions \o entries[h]
        /\ balance' = IF walletLock = h THEN entries[h][1].after ELSE balance
    BY <1>2 DEF CommitSettlement, CommitPosting, Goto
  <2>2. entries[h] = <<WalletRow(h, balance)>> /\ walletLock = h
    BY <2>1 DEF FreshInv
  <2>3. WalletRow(h, balance) =
          SettlementLedger!Line(doing[h], answer[h].amount, balance)
    BY DEF WalletRow, BalanceAfter, SettlementLedger!Line,
       SettlementLedger!BalanceAfter
  <2>4. walletTransactions' = Append(walletTransactions, WalletRow(h, balance))
    <3>1. /\ walletTransactions \in Seq(WalletRows)
          /\ balance \in Int
      BY DEF SettlementInv, SettlementTypeOK, PostingTypeOK
    <3>2. WalletRow(h, balance) \in WalletRows
      BY <2>1, <3>1, WalletRowType DEF PostingStates
    <3>3. QED
      BY <2>1, <2>2, <3>1, <3>2, AppendIsConcat
  <2>5. ~ SettlementLedger!Posted(doing[h])
    <3>1. ~ HasTransaction(doing[h])
      BY <1>2, CommitFacts
    <3>2. DOMAIN transactions = DOMAIN walletTransactions
      BY DEF BooksAgree, SettlementInv, SettlementTypeOK, PostingTypeOK
    <3>3. QED
      BY <3>1, <3>2 DEF BooksAgree, HasTransaction, SettlementLedger!Posted
  <2>6. QED
    BY <2>1, <2>2, <2>3, <2>4, <2>5 DEF SettlementLedger!Post
<1>3. ASSUME NEW h \in Handlers, CommitSettlement(h)
      PROVE  doing[h] \in Requests /\ answer[h].amount \in Amounts
  BY <1>3, CommitFacts DEF Answers, Credits
<1>4. QED
  BY <1>1, <1>2, <1>3, StepCases DEF SettlementLedger!Next

(* When confirmations do not overlap, the whole pipeline, with its locks,  *)
(* look-ups, roll-backs and reads outside the transaction, posts each      *)
(* payment to the wallet in one indivisible step.                          *)
THEOREM SerialImplementsLedger ==
  ASSUME OneAtATime
  PROVE  SettlementSpec => ImplementsLedger
<1>1. SettlementInit => SettlementLedger!Init /\ FreshInv
  BY DEF SettlementInit, PostingInit, SettlementLedger!Init, FreshInv
<1>2. SettlementInv /\ FreshInv /\ [SettlementNext]_settlementVars => FreshInv'
  BY FreshPreserved
<1>3. SettlementInv /\ BooksAgree /\ FreshInv /\ [SettlementNext]_settlementVars
        => [SettlementLedger!Next]_(SettlementLedger!vars)
  BY StepOfLedger
<1>4. QED
  BY <1>1, <1>2, <1>3, SettlementInvariant, BooksAlwaysAgree, PTL
  DEF SettlementSpec, ImplementsLedger, SettlementLedger!Spec

(* What the ledger promises then holds of the wallet: its transactions are *)
(* a chain that ends in the balance it shows.                              *)
THEOREM SerialLedgerChained ==
  ASSUME OneAtATime
  PROVE  SettlementSpec => []LedgerChained
<1>1. SettlementLedger!LedgerAssumption
  BY PostingAssumption DEF PostingAssumption, PaymentType,
     SettlementLedger!LedgerAssumption, SettlementLedger!PaymentType
<1>2. SettlementLedger!Spec => []SettlementLedger!Chained
  BY <1>1, SettlementLedger!BookChained
<1>3. QED
  BY <1>2, SerialImplementsLedger, PTL DEF ImplementsLedger, LedgerChained

-----------------------------------------------------------------------------
(* The screens: the joins behind a bill list.                              *)

(* What a bill list shows when nothing is searched for.                    *)
Shown(B) == ExtractBillPaymentTransaction(B, Anything).pairs

(* Request r was paid, for an invoice that groups bill b.                  *)
PaidFor(r, b) ==
  r \in Credits /\ HasTransaction(r) /\ b \in BillsOf[InvoiceOf[r]]

(* A pair on a list is a row of the joins.                                 *)
LEMMA ShownRows ==
  ASSUME NEW B \in SUBSET Bills
  PROVE  Shown(B) = {<<row.bill, row.receipt>> : row \in BillRows(B)}
<1>1. ASSUME NEW row \in BillRows(B) PROVE BillSearchQuery(Anything, row)
  <2>1. PICK b \in B : row \in InvoiceRows(b) BY DEF BillRows
  <2>2. row.bill = b BY <2>1 DEF InvoiceRows
  <2> QED BY <2>2 DEF BillSearchQuery, Anything
<1>2. {row \in BillRows(B) : BillSearchQuery(Anything, row)} = BillRows(B)
  BY <1>1
<1> QED BY <1>2 DEF Shown, ExtractBillPaymentTransaction

(* A receipt on a list is that of a request paid for the bill beside it.   *)
LEMMA ShownReceipts ==
  ASSUME NEW B \in SUBSET Bills, NEW pair \in Shown(B)
  PROVE  /\ pair[1] \in B
         /\ pair[2] # None => PaidFor(pair[2], pair[1])
<1>1. PICK row \in BillRows(B) : pair = <<row.bill, row.receipt>>
  BY ShownRows
<1>2. PICK b \in B : row \in InvoiceRows(b) BY DEF BillRows
<1>3. PICK i \in LeftJoin(InvoicesWith(b)) :
        \E r \in IF i = None THEN {None} ELSE LeftJoin(RequestsFor(i)) :
          row = [bill |-> b, invoice |-> i, request |-> r, receipt |-> ReceiptOf(r)]
  BY <1>2 DEF InvoiceRows
<1>4. PICK r \in IF i = None THEN {None} ELSE LeftJoin(RequestsFor(i)) :
        row = [bill |-> b, invoice |-> i, request |-> r, receipt |-> ReceiptOf(r)]
  BY <1>3
<1>5. pair[1] = b /\ pair[2] = ReceiptOf(r) BY <1>1, <1>4
<1>6. ASSUME ReceiptOf(r) # None PROVE PaidFor(ReceiptOf(r), b)
  <2>1. r # None /\ HasTransaction(r) /\ ReceiptOf(r) = r BY <1>6 DEF ReceiptOf
  <2>2. i # None /\ r \in RequestsFor(i) BY <1>4, <2>1 DEF LeftJoin
  <2>3. i \in InvoicesWith(b) BY <1>3, <2>2 DEF LeftJoin
  <2> QED BY <2>1, <2>2, <2>3 DEF PaidFor, RequestsFor, InvoicesWith
<1> QED BY <1>2, <1>5, <1>6

(* And each of them is there.                                              *)
LEMMA ReceiptIsShown ==
  ASSUME NEW B \in SUBSET Bills, NEW b \in B, NEW r, PaidFor(r, b),
         request[r].status # "absent", invoice[InvoiceOf[r]].status # "absent"
  PROVE  <<b, r>> \in Shown(B)
<1> DEFINE i == InvoiceOf[r]
           row == [bill |-> b, invoice |-> i, request |-> r, receipt |-> ReceiptOf(r)]
<1>1. /\ r \in Credits /\ HasTransaction(r) /\ b \in BillsOf[i]
      /\ i \in Invoices /\ i # None /\ r # None
  BY PostingAssumption, SettlementAssumption, ReportsAssumption
  DEF PaidFor, PostingAssumption, SettlementAssumption, ReportsAssumption, Credits
<1>2. i \in LeftJoin(InvoicesWith(b)) BY <1>1 DEF LeftJoin, InvoicesWith
<1>3. r \in LeftJoin(RequestsFor(i)) BY <1>1 DEF LeftJoin, RequestsFor
<1>4. ReceiptOf(r) = r BY <1>1 DEF ReceiptOf
<1>5. row \in InvoiceRows(b)
  <2> HIDE DEF i
  <2> QED BY <1>1, <1>2, <1>3 DEF InvoiceRows
<1>6. row \in BillRows(B) BY <1>5 DEF BillRows
<1>7. row.bill = b /\ row.receipt = r BY <1>4
<1> HIDE DEF row
<1> QED BY <1>6, <1>7, ShownRows

-----------------------------------------------------------------------------
(* What the rows say of one payment.                                       *)

(* The bills of a paid request are no longer unpaid; whoever has saved the *)
(* wallet holds its row, so its balance is the one the last line left.     *)
PaidInv ==
  /\ \A r \in Requests, b \in Bills : PaidFor(r, b) => bill[b].status # "NOT_PAID"
  /\ \A h \in Handlers : pc[h] = "posted" => walletLock = h
  /\ Len(walletTransactions) > 0 =>
       balance = walletTransactions[Len(walletTransactions)].after

(* The row of the wallet is held from its save to the end.                 *)
LEMMA WalletHeld ==
  ASSUME SettlementInv, PaidInv, [SettlementNext]_settlementVars,
         NEW k \in Handlers, pc'[k] = "posted"
  PROVE  walletLock' = k
<1> USE DEF SettlementInv, SettlementTypeOK, PostingTypeOK
<1>1. CASE UNCHANGED settlementVars
  BY <1>1 DEF settlementVars, postingVars, localVars, lockVars, PaidInv
<1>2. CASE \/ \E r \in Requests : Initiate(r)
           \/ \E i \in Invoices : CreateInvoice(i)
  BY <1>2 DEF Initiate, CreateInvoice, postingVars, localVars, lockVars, PaidInv
<1>3. ASSUME NEW h \in Handlers, ConfirmStep(h) \/ ConfirmEvent(h), k # h,
             ~ UNCHANGED settlementVars
      PROVE  walletLock' = k
  <2>1. pc'[k] = pc[k]
    BY <1>3 DEF ConfirmStep, ConfirmEvent, PostingStep, Goto, Verify,
       SaveRequest, CheckNoTransaction, InsertTransaction,
       CreateWalletTransaction, SaveWallet, CommitSettlement,
       RollbackSettlement, ValidatePayment, AnswerPaid, ReadFails,
       FailSettlement
  <2>2. walletLock = k BY <2>1 DEF PaidInv
  <2>3. k # None BY PostingAssumption DEF PostingAssumption
  <2>4. ~ SaveWallet(h) BY <1>3, <2>2, <2>3 DEF SaveWallet
  <2>5. walletLock' = walletLock \/ Release(h)
    BY <1>3, <2>4 DEF ConfirmStep, ConfirmEvent, PostingStep, Verify,
       SaveRequest, CheckNoTransaction, InsertTransaction,
       CreateWalletTransaction, CommitSettlement, CommitPosting,
       RollbackSettlement, RollbackPosting, ValidatePayment, AnswerPaid,
       ReadFails, FailSettlement, lockVars
  <2> QED BY <1>3, <2>2, <2>5 DEF Release
<1>4. ASSUME ConfirmStep(k) \/ ConfirmEvent(k), ~ UNCHANGED settlementVars
      PROVE  walletLock' = k
  <2>1. SaveWallet(k)
    BY <1>4 DEF ConfirmStep, ConfirmEvent, PostingStep, Goto, Verify,
       SaveRequest, CheckNoTransaction, InsertTransaction,
       CreateWalletTransaction, CommitSettlement,
       RollbackSettlement, ValidatePayment, AnswerPaid, ReadFails,
       FailSettlement
  <2> QED BY <2>1 DEF SaveWallet
<1> QED BY <1>1, <1>2, <1>3, <1>4 DEF SettlementNext

(* A commit settles a credit request and all its bills, and its line is    *)
(* the last one.                                                           *)
LEMMA PaidKept ==
  ASSUME SettlementInv, PaidInv, [SettlementNext]_settlementVars
  PROVE  PaidInv'
<1>1. \A k \in Handlers : pc'[k] = "posted" => walletLock' = k BY WalletHeld
<1>2. CASE UNCHANGED <<ledgerVars, bill>>
  BY <1>1, <1>2 DEF PaidInv, PaidFor, HasTransaction, ledgerVars
<1>3. ASSUME NEW h \in Handlers, CommitSettlement(h) PROVE PaidInv'
  <2> DEFINE i == InvoiceOf[doing[h]]
             status == PaidRequest(h).status
  <2>2. status # "NOT_PAID" BY DEF PaidRequest
  <2>3. bill' = UpdatedBill(i, status) BY <1>3 DEF CommitSettlement
  <2>4. \A b \in Bills : bill'[b].status = IF b \in BillsOf[i]
                                             THEN status ELSE bill[b].status
    BY <2>3 DEF UpdatedBill
  <2>5. \A q : HasTransaction(q)' <=> HasTransaction(q) \/ q = doing[h]
    BY <1>3, CommitFacts
  <2>6. ASSUME NEW r \in Requests, NEW b \in Bills, PaidFor(r, b)'
        PROVE  bill'[b].status # "NOT_PAID"
    <3>1. CASE b \in BillsOf[i] BY <2>2, <2>4, <3>1
    <3>2. CASE b \notin BillsOf[i]
      <4>1. r # doing[h] /\ PaidFor(r, b) BY <2>5, <2>6, <3>2 DEF PaidFor
      <4>2. bill[b].status # "NOT_PAID" BY <4>1 DEF PaidInv
      <4> QED BY <2>4, <3>2, <4>2
    <3> QED BY <3>1, <3>2
  <2>7. balance' = walletTransactions'[Len(walletTransactions')].after
    <3>1. pc[h] = "posted"
          /\ balance' = IF walletLock = h THEN entries[h][1].after ELSE balance
      BY <1>3 DEF CommitSettlement, CommitPosting, Goto
    <3>2. balance' = entries[h][1].after BY <3>1 DEF PaidInv
    <3>3. PICK before \in Int :
            /\ entries[h] = <<WalletRow(h, before)>>
            /\ Len(walletTransactions') = Len(walletTransactions) + 1
            /\ walletTransactions'[Len(walletTransactions) + 1] = WalletRow(h, before)
      BY <1>3, CommitWallet
    <3> QED BY <3>2, <3>3
  <2> QED BY <1>1, <2>6, <2>7 DEF PaidInv
<1> QED BY <1>2, <1>3, StepCases DEF billingVars

-----------------------------------------------------------------------------
(* The screens.                                                            *)

(* Everything the screens are made of.                                     *)
ShownInv ==
  /\ SettlementInv /\ InvoiceFirst /\ AmountsStayZero /\ BooksAgree
  /\ SettledMatchesTransaction /\ StatusesHaveASource /\ PaidInv

(* A paid request is there, so its receipt is on the lists of its bills.   *)
LEMMA PaidIsShown ==
  ASSUME ShownInv, NEW B \in SUBSET Bills, NEW b \in B, NEW r, PaidFor(r, b)
  PROVE  <<b, r>> \in Shown(B)
<1>1. PICK n \in DOMAIN transactions : transactions[n].request = r
  BY DEF PaidFor, HasTransaction
<1>2. request[r].status # "absent" /\ invoice[InvoiceOf[r]].status # "absent"
  BY <1>1 DEF ShownInv, SettledMatchesTransaction, InvoiceFirst
<1> QED BY <1>2, ReceiptIsShown

(* A bill with a receipt is not called unpaid, and one that is called paid *)
(* is found with a receipt.                                                *)
LEMMA ReceiptsMatch == ShownInv => ReceiptsMatchStatus
<1> SUFFICES ASSUME ShownInv, NEW s \in Subscriptions
             PROVE  /\ \A line \in SubscriptionScreen(s, Anything) :
                         line.transactionReference # None =>
                           line.paymentStatus # "NOT_PAID"
                    /\ \A b \in FindBySubscriptions({s}) :
                         bill[b].status # "NOT_PAID" =>
                           \E r \in Requests :
                             <<b, r>> \in FindBySubscriptionAndQuery(s, Anything).pairs
  BY DEF ReceiptsMatchStatus
<1> DEFINE B == {b \in Bills : SubscriptionOf[b] = s}
<1>1. FindBySubscriptionAndQuery(s, Anything).pairs = Shown(B)
  BY DEF FindBySubscriptionAndQuery, Shown
<1>2. ASSUME NEW line \in SubscriptionScreen(s, Anything),
             line.transactionReference # None
      PROVE  line.paymentStatus # "NOT_PAID"
  <2>1. PICK pair \in Shown(B) : line = MembershipBill(pair)
    BY <1>1 DEF SubscriptionScreen
  <2>2. /\ line.paymentStatus = bill[pair[1]].status
        /\ line.transactionReference = pair[2]
    BY <2>1 DEF MembershipBill
  <2>3. pair[1] \in Bills /\ PaidFor(pair[2], pair[1])
    BY <1>2, <2>2, ShownReceipts
  <2> QED BY <2>2, <2>3 DEF ShownInv, PaidInv, PaidFor, Credits
<1>3. ASSUME NEW b \in FindBySubscriptions({s}), bill[b].status # "NOT_PAID"
      PROVE  \E r \in Requests : <<b, r>> \in Shown(B)
  <2>1. b \in B BY DEF FindBySubscriptions
  <2>2. PICK i \in Invoices :
          b \in BillsOf[i] /\ invoice[i].status \notin {"absent", "NOT_PAID"}
    BY <1>3, <2>1 DEF ShownInv, StatusesHaveASource, AmountsStayZero
  <2>3. PICK r \in Credits : InvoiceOf[r] = i /\ HasTransaction(r)
    BY <2>2 DEF ShownInv, StatusesHaveASource
  <2>4. PaidFor(r, b) BY <2>2, <2>3 DEF PaidFor
  <2> QED BY <2>1, <2>3, <2>4, PaidIsShown DEF Credits
<1> QED BY <1>1, <1>2, <1>3

(* The receipts on the bill lists are the payments in the wallet.          *)
LEMMA ReceiptsAreOwn ==
  ASSUME ShownInv,
         NEW receipts, receipts = {line.transactionReference :
                                     line \in ServiceFeeScreen(Subscriptions, Anything)}
  PROVE  /\ {line.request : line \in OwnLines} = receipts \ {None}
         /\ \A line \in OwnLines : line.type = "CREDIT"
<1> DEFINE last == Len(walletTransactions)
<1>1. /\ walletTransactions \in Seq(WalletRows)
      /\ transactions \in Seq(TransactionRows)
      /\ last \in Nat
      /\ DOMAIN walletTransactions = 1 .. last
      /\ DOMAIN transactions = 1 .. last
  BY DEF ShownInv, SettlementInv, SettlementTypeOK, PostingTypeOK, BooksAgree
<1>2. \A n \in 1 .. last : /\ walletTransactions[n].request = transactions[n].request
                           /\ walletTransactions[n].request \in Credits
  BY <1>1 DEF ShownInv, BooksAgree, InvoiceFirst
<1> HIDE DEF last
<1>3. \A line \in OwnLines : \E n \in 1 .. last : line.request = walletTransactions[n].request
  BY <1>1 DEF OwnLines
<1>8. ASSUME NEW n \in 1 .. last
      PROVE  \E line \in OwnLines : line.request = walletTransactions[n].request
  <2> DEFINE line == [type     |-> TypeOf[walletTransactions[n].request],
                      request  |-> walletTransactions[n].request,
                      amount   |-> walletTransactions[n].amount,
                      previous |-> walletTransactions[n].previous,
                      after    |-> walletTransactions[n].after]
  <2>1. line \in OwnLines BY <1>1 DEF OwnLines
  <2>2. line.request = walletTransactions[n].request OBVIOUS
  <2> QED BY <2>1, <2>2, Zenon
<1>4. receipts = {pair[2] : pair \in Shown(Bills)}
  <2>1. {b \in Bills : SubscriptionOf[b] \in Subscriptions} = Bills
    BY SettlementAssumption DEF SettlementAssumption
  <2>2. FindByServiceFeeAndQuery(Subscriptions, Anything).pairs = Shown(Bills)
    BY <2>1 DEF FindByServiceFeeAndQuery, Shown
  <2>3. \A pair : MembershipBill(pair).transactionReference = pair[2]
    BY DEF MembershipBill
  <2> QED BY <2>2, <2>3 DEF ServiceFeeScreen
<1>5. ASSUME NEW n \in 1 .. last PROVE walletTransactions[n].request \in receipts \ {None}
  <2>1. PICK r \in Credits : r = walletTransactions[n].request BY <1>2
  <2>2. HasTransaction(r) BY <1>1, <1>2, <2>1 DEF HasTransaction
  <2>3. PICK b \in Bills : b \in BillsOf[InvoiceOf[r]]
    BY SettlementAssumption, ReportsAssumption
    DEF SettlementAssumption, ReportsAssumption
  <2>4. <<b, r>> \in Shown(Bills) BY <2>2, <2>3, PaidIsShown DEF PaidFor
  <2>5. r # None BY PostingAssumption DEF PostingAssumption, Credits
  <2> QED BY <1>4, <2>1, <2>4, <2>5
<1>6. ASSUME NEW r \in receipts, r # None
      PROVE  \E n \in 1 .. last : walletTransactions[n].request = r
  <2>1. PICK pair \in Shown(Bills) : pair[2] = r BY <1>4, <1>6
  <2>2. HasTransaction(r) BY <1>6, <2>1, ShownReceipts DEF PaidFor
  <2> QED BY <1>1, <1>2, <2>2 DEF HasTransaction
<1>7. \A line \in OwnLines : line.type = "CREDIT"
  BY <1>1, <1>2 DEF OwnLines, Credits
<1>9. \A line \in OwnLines : line.request \in receipts \ {None}
  BY <1>3, <1>5, Zenon
<1>10. ASSUME NEW r \in receipts \ {None}
       PROVE  \E line \in OwnLines : line.request = r
  <2>1. PICK n \in 1 .. last : walletTransactions[n].request = r BY <1>6
  <2> QED BY <1>8, <2>1
<1> HIDE DEF last
<1> QED BY <1>7, <1>9, <1>10, Zenon

(* Searched for what came in, the wallet screen lists those payments, and  *)
(* whatever other wallets were paid.                                       *)
LEMMA WalletListsIncoming ==
  ASSUME NEW elsewhere, \A line \in OwnLines : line.type = "CREDIT",
         NEW in, in = [minAmount |-> None, maxAmount |-> None, type |-> "CREDIT",
                       others |-> OwnLines \cup elsewhere]
  PROVE  {line.transactionReference : line \in WalletTransactionList(elsewhere, in)} =
           {line.request : line \in OwnLines} \cup
             {line.request : line \in Incoming(elsewhere)}
<1>1. /\ in.minAmount = None /\ in.maxAmount = None
      /\ in.type = "CREDIT" /\ in.others = OwnLines \cup elsewhere
  OBVIOUS
<1>2. FindByWalletAndQuery(elsewhere, in) = OwnLines \cup Incoming(elsewhere)
  <2>1. None # "CREDIT"
    BY ReportsAssumption DEF ReportsAssumption, PaymentType
  <2>2. FindByWalletAndQuery(elsewhere, in) =
          {line \in OwnLines \cup elsewhere : line.type = "CREDIT"}
    BY <1>1, <2>1 DEF FindByWalletAndQuery
  <2> QED BY <2>2 DEF Incoming
<1>3. \A line : WalletTransactionLine(line).transactionReference = line.request
  BY DEF WalletTransactionLine
<1>4. WalletTransactionList(elsewhere, in) =
        {WalletTransactionLine(line) : line \in OwnLines \cup Incoming(elsewhere)}
  BY <1>2 DEF WalletTransactionList
<1> DEFINE incoming == Incoming(elsewhere)
           list == WalletTransactionList(elsewhere, in)
<1> HIDE DEF incoming, list
<1>5. ASSUME NEW line \in OwnLines \cup incoming
      PROVE  \E shown \in list : shown.transactionReference = line.request
  <2>1. WalletTransactionLine(line) \in list BY <1>4 DEF incoming, list
  <2> QED BY <1>3, <2>1, Zenon
<1>6. ASSUME NEW shown \in list
      PROVE  \E line \in OwnLines \cup incoming : shown.transactionReference = line.request
  <2>1. PICK line \in OwnLines \cup incoming : shown = WalletTransactionLine(line)
    BY <1>4 DEF incoming, list
  <2> QED BY <1>3, <2>1, Zenon
<1>7. {shown.transactionReference : shown \in list} =
        {line.request : line \in OwnLines} \cup {line.request : line \in incoming}
  BY <1>5, <1>6
<1> QED BY <1>7, Zenon DEF incoming, list

(* So the wallet screen lists the receipts of the bill lists, and next to  *)
(* them what came in to other wallets.                                     *)
LEMMA WalletMatches == ShownInv => WalletMatchesReceipts
<1> SUFFICES ASSUME ShownInv PROVE WalletMatchesReceipts
  OBVIOUS
<1> DEFINE receipts == {line.transactionReference :
                          line \in ServiceFeeScreen(Subscriptions, Anything)}
           last == Len(walletTransactions)
           in(elsewhere) == [minAmount |-> None, maxAmount |-> None, type |-> "CREDIT",
                             others |-> OwnLines \cup elsewhere]
<1>1. /\ {line.request : line \in OwnLines} = receipts \ {None}
      /\ \A line \in OwnLines : line.type = "CREDIT"
  BY ReceiptsAreOwn
<1>2. ASSUME NEW elsewhere \in SUBSET OtherLines
      PROVE  {line.transactionReference :
                line \in WalletTransactionList(elsewhere, in(elsewhere))} =
               (receipts \ {None}) \cup {line.request : line \in Incoming(elsewhere)}
  <2> HIDE DEF receipts
  <2> QED BY <1>1, WalletListsIncoming
<1>3. ASSUME last > 0
      PROVE  WalletScreens({last}) = {[balance |-> balance, amountThisMonth |-> balance]}
  <2>1. walletTransactions \in Seq(WalletRows)
    BY DEF ShownInv, SettlementInv, SettlementTypeOK, PostingTypeOK
  <2>2. FindByMonth({last}) = {last} BY <1>3, <2>1 DEF FindByMonth
  <2>3. balance = walletTransactions[last].after BY <1>3 DEF ShownInv, PaidInv
  <2> QED BY <2>2, <2>3 DEF WalletScreens
<1> QED BY <1>2, <1>3, Zenon DEF WalletMatchesReceipts

(* Whatever confirmations overlap, the bill lists, the wallet screen and   *)
(* the balance tell the same of each payment of the association, although  *)
(* each of them reads other tables; the wallet screen lists what came in   *)
(* to all other wallets as well, whatever that is.                         *)
THEOREM ScreensTellTheSame == SettlementSpec => []ScreensAgree
<1>1. SettlementInit => PaidInv
  BY PostingAssumption
  DEF SettlementInit, PostingInit, PaidInv, PaidFor, HasTransaction
<1>2. ShownInv => ScreensAgree
  BY ReceiptsMatch, WalletMatches DEF ScreensAgree
<1>3. SettlementSpec => []PaidInv
  BY <1>1, PaidKept, SettlementInvariant, PTL DEF SettlementSpec
<1> QED
  BY <1>2, <1>3, SettlementInvariant, InvoicesComeFirst, AmountsNeverSpread,
     SettledMatches, BooksAlwaysAgree, StatusesAreSourced, PTL
  DEF ShownInv

-----------------------------------------------------------------------------
(* What the screens call received.                                         *)

(* What each bill asks for: the price of its subscription, a number.       *)
Priced == [b \in Bills |-> Price[SubscriptionOf[b]]]

(* A price is a natural number.                                            *)
LEMMA PricedType == \A b \in Bills : Priced[b] \in Nat
BY SettlementAssumption DEF SettlementAssumption, Priced

(* Fewer bills amount to no more.                                          *)
LEMMA SumBillsLess ==
  ASSUME NEW B \in SUBSET Bills, NEW A \in SUBSET B
  PROVE  SumBills(A) <= SumBills(B)
<1>1. IsFiniteSet(B) BY SumBillsType
<1>2. SumFunctionOnSet(Priced, A) <= SumFunctionOnSet(Priced, B)
  BY <1>1, PricedType, SumSubset
<1> QED BY <1>2 DEF SumBills, Priced

(* Bills amount to what a part of them does and what the rest does.        *)
LEMMA SumBillsRest ==
  ASSUME NEW A \in SUBSET Bills, NEW B \in SUBSET Bills
  PROVE  SumBills(A \cup B) = SumBills(A) + SumBills(B \ A)
<1>1. IsFiniteSet(A) /\ IsFiniteSet(B \ A) BY SumBillsType
<1>2. A \cap (B \ A) = {} /\ A \cup (B \ A) = A \cup B OBVIOUS
<1>3. \A b \in A \cup (B \ A) : Priced[b] \in Int BY PricedType
<1>4. SumFunctionOnSet(Priced, A \cup (B \ A)) =
        SumFunctionOnSet(Priced, A) + SumFunctionOnSet(Priced, B \ A)
  BY <1>1, <1>2, <1>3, SumUnion
<1> QED BY <1>2, <1>4 DEF SumBills, Priced

(* The amount in a payment transaction is a natural number.                *)
LEMMA RowAmount ==
  ASSUME NEW rows \in Seq(TransactionRows), NEW n \in DOMAIN rows
  PROVE  rows[n].amount \in Nat
<1>1. rows[n] \in TransactionRows OBVIOUS
<1>2. rows[n].amount \in Amounts BY <1>1 DEF TransactionRows
<1> QED BY <1>2, PostingAssumption DEF PostingAssumption

(* So is what they amount to together.                                     *)
LEMMA CollectedType == SettlementInv => Collected \in Nat
<1> SUFFICES ASSUME SettlementInv PROVE Collected \in Nat
  OBVIOUS
<1> DEFINE f == [n \in DOMAIN transactions |-> transactions[n].amount]
<1>1. transactions \in Seq(TransactionRows)
  BY DEF SettlementInv, SettlementTypeOK, PostingTypeOK
<1>2. IsFiniteSet(DOMAIN transactions)
  <2>1. DOMAIN transactions = 1 .. Len(transactions) /\ Len(transactions) \in Nat
    BY <1>1
  <2> QED BY <2>1, FS_Interval
<1>3. \A n \in DOMAIN transactions : f[n] \in Nat
  BY <1>1, RowAmount
<1> HIDE DEF f
<1>4. SumFunctionOnSet(f, DOMAIN transactions) \in Nat BY <1>2, <1>3, SumNat
<1> QED BY <1>4 DEF Collected, f

(* A commit adds what was paid to what was collected.                      *)
LEMMA CollectedGrows ==
  ASSUME SettlementInv, SettlementInv', NEW h \in Handlers, CommitSettlement(h)
  PROVE  Collected' = Collected + answer[h].amount
<1> DEFINE D == DOMAIN transactions
           x == Len(transactions) + 1
           f == [n \in D |-> transactions[n].amount]
           g == [n \in DOMAIN transactions' |-> transactions'[n].amount]
<1>1. /\ D = 1 .. Len(transactions) /\ Len(transactions) \in Nat
      /\ DOMAIN transactions' = D \cup {x} /\ x \notin D
      /\ \A n \in D : transactions'[n] = transactions[n]
      /\ transactions'[x].amount = answer[h].amount
  <2>1. /\ Len(transactions) \in Nat
        /\ DOMAIN transactions = 1 .. Len(transactions)
        /\ DOMAIN transactions' = 1 .. Len(transactions) + 1
        /\ \A n \in 1 .. Len(transactions) : transactions'[n] = transactions[n]
        /\ transactions'[Len(transactions) + 1].amount = answer[h].amount
    BY CommitFacts
  <2>2. \A n \in Nat : 1 .. n + 1 = (1 .. n) \cup {n + 1} /\ n + 1 \notin 1 .. n
    OBVIOUS
  <2> QED BY <2>1, <2>2
<1>2. IsFiniteSet(D)
  <2>1. IsFiniteSet(1 .. Len(transactions)) BY <1>1, FS_Interval
  <2> QED BY <1>1, <2>1
<1>3. \A n \in DOMAIN transactions' : g[n] \in Int
  <2>1. transactions' \in Seq(TransactionRows) BY CommitFacts
  <2> QED BY <2>1, RowAmount
<1>4. \A n \in D : f[n] \in Int /\ g[n] = f[n] BY <1>1, <1>3
<1>5. g[x] = answer[h].amount BY <1>1
<1>6. Collected = SumFunctionOnSet(f, D) BY DEF Collected
<1>7. Collected' = SumFunctionOnSet(g, D \cup {x}) BY <1>1 DEF Collected
<1> HIDE DEF f, g, D, x
<1>8. SumFunctionOnSet(g, D \cup {x}) = g[x] + SumFunctionOnSet(g, D)
  BY <1>1, <1>2, <1>3, SumAdd
<1>9. SumFunctionOnSet(f, D) = SumFunctionOnSet(g, D) BY <1>2, <1>4, SumEqual
<1>10. SumFunctionOnSet(f, D) \in Int BY <1>2, <1>4, SumType
<1>11. answer[h].amount \in Int
  BY CommitFacts, AmountIsInt DEF Answers
<1> QED BY <1>5, <1>6, <1>7, <1>8, <1>9, <1>10, <1>11

(* S is a set of bills, among them all that are paid, that the payments    *)
(* cover; what an invoice asks for suffices for its bills outside S.  The  *)
(* bills that ever were paid are such a set: a later payment in part for   *)
(* another invoice takes a bill from the paid ones, and a new invoice then *)
(* asks for it again.                                                      *)
Covers(S) ==
  /\ PaidBills(Bills) \subseteq S
  /\ SumBills(S) <= Collected
  /\ \A i \in Invoices :
       invoice[i].status # "absent" => invoice[i].due >= SumBills(BillsOf[i] \ S)

CoverInv == \E S \in SUBSET Bills : Covers(S)

(* A new invoice asks for its bills that are not paid, which leaves out    *)
(* none outside S.                                                         *)
LEMMA CreateInvoiceCovers ==
  ASSUME SettlementInv, NEW S \in SUBSET Bills, Covers(S),
         NEW i \in Invoices, CreateInvoice(i)
  PROVE  Covers(S)'
<1>1. /\ UNCHANGED <<transactions, bill>>
      /\ \A j \in Invoices : j # i => invoice'[j] = invoice[j]
      /\ invoice'[i].due = AmountAsked(BillsOf[i]) + Surcharge[i]
  BY DEF CreateInvoice, postingVars, ledgerVars, SettlementInv, SettlementTypeOK
<1>2. BillsOf[i] \in SUBSET Bills /\ Surcharge[i] \in Nat
  BY SettlementAssumption DEF SettlementAssumption
<1>3. SumBills(BillsOf[i] \ S) <= AmountAsked(BillsOf[i])
  <2> DEFINE rest == BillsOf[i] \ PaidBills(BillsOf[i])
  <2>1. rest \in SUBSET Bills /\ BillsOf[i] \ S \in SUBSET rest
    BY <1>2 DEF Covers, PaidBills
  <2>2. SumBills(BillsOf[i] \ S) <= SumBills(rest) BY <2>1, SumBillsLess
  <2> QED BY <2>2 DEF AmountAsked
<1>4. invoice'[i].due >= SumBills(BillsOf[i] \ S)
  <2>1. SumBills(BillsOf[i] \ S) \in Nat BY <1>2, SumBillsType
  <2>2. AmountAsked(BillsOf[i]) \in Nat
    BY <1>2, SumBillsType DEF AmountAsked, PaidBills
  <2> QED BY <1>1, <1>2, <1>3, <2>1, <2>2
<1> QED BY <1>1, <1>4 DEF Covers, PaidBills, Collected

(* A payment in full adds the bills of its invoice to S, and has paid for  *)
(* those it adds; one in part adds none.                                   *)
LEMMA CommitCovers ==
  ASSUME SettlementInv, SettlementInv', InvoiceFirst,
         NEW S \in SUBSET Bills, Covers(S),
         NEW h \in Handlers, CommitSettlement(h)
  PROVE  CoverInv'
<1> DEFINE i == InvoiceOf[doing[h]]
           amount == answer[h].amount
           status == PaidRequest(h).status
<1>1. doing[h] \in Credits /\ pc[h] # "idle"
  BY CommitFacts DEF CommitSettlement, Goto
<1>2. i \in Invoices BY <1>1, SettlementAssumption DEF SettlementAssumption
<1>3. \A j \in Invoices : BillsOf[j] \in SUBSET Bills
  BY SettlementAssumption DEF SettlementAssumption
<1>4. invoice[i].status # "absent" BY <1>1 DEF InvoiceFirst
<1>5. /\ \A j \in Invoices : /\ invoice'[j].due = invoice[j].due
                             /\ j # i => invoice'[j].status = invoice[j].status
      /\ \A b \in Bills : bill'[b].status = IF b \in BillsOf[i] THEN status
                                                               ELSE bill[b].status
  BY <1>2 DEF CommitSettlement, UpdatedInvoice, UpdatedBill, SettlementInv,
     SettlementTypeOK
<1>6. \A j \in Invoices : invoice'[j].status # "absent" => invoice[j].status # "absent"
  BY <1>4, <1>5
<1>7. /\ Collected \in Nat /\ amount \in Nat
      /\ Collected' = Collected + amount
  <2>1. answer[h].amount \in Nat
    BY CommitFacts, PostingAssumption DEF Answers, PostingAssumption
  <2> QED BY <2>1, CollectedType, CollectedGrows
<1>8. \A j \in Invoices : invoice[j].due \in Nat
  BY DEF SettlementInv, SettlementTypeOK
<1>9. SumBills(S) \in Nat BY SumBillsType
<1>10. CASE status = "PAID"
  <2>1. amount >= invoice[i].due BY <1>10 DEF PaidRequest
  <2>2. PICK T \in SUBSET Bills : T = S \cup BillsOf[i] BY <1>2, <1>3
  <2>3. PaidBills(Bills)' \subseteq T BY <1>5, <2>2 DEF PaidBills, Covers
  <2>4. SumBills(T) <= Collected'
    <3>1. SumBills(T) = SumBills(S) + SumBills(BillsOf[i] \ S)
      BY <1>2, <1>3, <2>2, SumBillsRest
    <3>2. SumBills(BillsOf[i] \ S) <= invoice[i].due BY <1>2, <1>4 DEF Covers
    <3>3. SumBills(BillsOf[i] \ S) \in Nat BY <1>2, <1>3, SumBillsType
    <3>4. SumBills(S) <= Collected BY DEF Covers
    <3> HIDE DEF i, amount
    <3> QED BY <1>2, <1>7, <1>8, <1>9, <2>1, <3>1, <3>2, <3>3, <3>4
  <2>5. ASSUME NEW j \in Invoices, invoice'[j].status # "absent"
        PROVE  invoice'[j].due >= SumBills(BillsOf[j] \ T)
    <3>1. SumBills(BillsOf[j] \ T) <= SumBills(BillsOf[j] \ S)
      <4>1. BillsOf[j] \ S \in SUBSET Bills /\ BillsOf[j] \ T \in SUBSET (BillsOf[j] \ S)
        BY <1>3, <2>2
      <4> QED BY <4>1, SumBillsLess
    <3>2. invoice[j].due >= SumBills(BillsOf[j] \ S) BY <1>6, <2>5 DEF Covers
    <3>3. BillsOf[j] \ S \in SUBSET Bills /\ BillsOf[j] \ T \in SUBSET Bills BY <1>3
    <3>4. SumBills(BillsOf[j] \ S) \in Nat /\ SumBills(BillsOf[j] \ T) \in Nat
      BY <3>3, SumBillsType
    <3> QED BY <1>5, <1>8, <3>1, <3>2, <3>4
  <2>6. Covers(T)' BY <2>3, <2>4, <2>5 DEF Covers
  <2> QED BY <2>6 DEF CoverInv
<1>11. CASE status # "PAID"
  <2>1. PaidBills(Bills)' \subseteq S BY <1>5, <1>11 DEF PaidBills, Covers
  <2>2. SumBills(S) <= Collected' BY <1>7, <1>9 DEF Covers
  <2>3. \A j \in Invoices : invoice'[j].status # "absent" =>
          invoice'[j].due >= SumBills(BillsOf[j] \ S)
    BY <1>5, <1>6 DEF Covers
  <2>4. Covers(S)' BY <2>1, <2>2, <2>3 DEF Covers
  <2> QED BY <2>4 DEF CoverInv
<1> QED BY <1>10, <1>11

(* Every step leaves such a set.                                           *)
LEMMA CoverKept ==
  ASSUME SettlementInv, SettlementInv', InvoiceFirst, CoverInv,
         [SettlementNext]_settlementVars
  PROVE  CoverInv'
<1>1. PICK S \in SUBSET Bills : Covers(S) BY DEF CoverInv
<1>2. CASE UNCHANGED <<ledgerVars, billingVars>>
  <2>1. Covers(S)'
    BY <1>1, <1>2 DEF Covers, PaidBills, Collected, ledgerVars, billingVars
  <2> QED BY <2>1 DEF CoverInv
<1>3. ASSUME NEW i \in Invoices, CreateInvoice(i) PROVE CoverInv'
  <2>1. Covers(S)' BY <1>1, <1>3, CreateInvoiceCovers
  <2> QED BY <2>1 DEF CoverInv
<1>4. ASSUME NEW h \in Handlers, CommitSettlement(h) PROVE CoverInv'
  BY <1>1, <1>4, CommitCovers
<1> QED BY <1>2, <1>3, <1>4, StepCases
(* The bills that are paid are covered, and so is all that is counted from *)
(* their rows: each figure is what some paid bills amount to.              *)
LEMMA PaidCovered ==
  ASSUME SettlementInv, CoverInv, NEW B \in SUBSET PaidBills(Bills)
  PROVE  SumBills(B) <= Collected
<1>1. PICK S \in SUBSET Bills : Covers(S) BY DEF CoverInv
<1>2. B \in SUBSET S BY <1>1 DEF Covers
<1>3. SumBills(B) <= SumBills(S) BY <1>2, SumBillsLess
<1>4. SumBills(S) <= Collected BY <1>1 DEF Covers
<1>5. SumBills(B) \in Nat /\ SumBills(S) \in Nat BY <1>2, SumBillsType
<1> QED BY <1>3, <1>4, <1>5, CollectedType

(* What a subscription has raised is what its paid bills amount to.        *)
PaidOf(s) == PaidBills(FindBySubscriptions({s}))

(* It is the price of the subscription once for each of them.              *)
LEMMA RaisedByPaid ==
  ASSUME NEW s \in Subscriptions
  PROVE  /\ PaidOf(s) \in SUBSET PaidBills(Bills)
         /\ Price[s] * Cardinality(PaidOf(s)) = SumBills(PaidOf(s))
         /\ Cardinality(PaidOf(s)) * Price[s] = SumBills(PaidOf(s))
<1>1. PaidOf(s) \in SUBSET PaidBills(Bills)
  BY DEF PaidOf, PaidBills, FindBySubscriptions
<1>2. \A b \in PaidOf(s) : Priced[b] = Price[s]
  BY DEF PaidOf, PaidBills, FindBySubscriptions, Priced
<1>3. IsFiniteSet(PaidOf(s)) BY <1>1, SumBillsType DEF PaidBills
<1>4. Price[s] \in Int /\ Cardinality(PaidOf(s)) \in Int
  BY <1>3, FS_CardinalityType, SettlementAssumption DEF SettlementAssumption
<1>5. SumFunctionOnSet(Priced, PaidOf(s)) = Price[s] * Cardinality(PaidOf(s))
  BY <1>2, <1>3, <1>4, SumConstant
<1>6. SumBills(PaidOf(s)) = Price[s] * Cardinality(PaidOf(s))
  BY <1>5 DEF SumBills, Priced
<1>7. \A m, n \in Int : m * n = n * m OBVIOUS
<1> QED BY <1>1, <1>4, <1>6, <1>7

(* No two subscriptions have a bill in common, so what all have raised is  *)
(* what the paid bills amount to.                                          *)
LEMMA RaisedByAll ==
  SumFunctionOnSet(FeeRaised, Subscriptions) = SumBills(PaidBills(Bills))
<1> DEFINE P == [s \in Subscriptions |-> PaidOf(s)]
           w == [s \in Subscriptions |-> SumFunctionOnSet(Priced, P[s])]
<1>1. IsFiniteSet(Bills) /\ IsFiniteSet(Subscriptions)
  BY SettlementAssumption, ReportsAssumption DEF SettlementAssumption, ReportsAssumption
<1>2. P \in [Subscriptions -> SUBSET Bills]
  BY DEF PaidOf, PaidBills, FindBySubscriptions
<1>3. \A s, t \in Subscriptions : s # t => P[s] \cap P[t] = {}
  BY DEF PaidOf, PaidBills, FindBySubscriptions
<1>4. UNION {P[s] : s \in Subscriptions} = PaidBills(Bills)
  BY SettlementAssumption
  DEF SettlementAssumption, PaidOf, PaidBills, FindBySubscriptions
<1>5. FeeRaised = w
  <2>1. ASSUME NEW s \in Subscriptions PROVE FeeRaised[s] = w[s]
    <3>1. FeeRaised[s] = Cardinality(PaidOf(s)) * Price[s]
      BY DEF FeeRaised, FeeDetail, CountPaid, PaidOf
    <3>2. w[s] = SumBills(PaidOf(s)) BY DEF SumBills, Priced
    <3> QED BY <3>1, <3>2, RaisedByPaid
  <2>2. FeeRaised = [s \in Subscriptions |-> FeeRaised[s]] BY DEF FeeRaised
  <2> HIDE DEF P
  <2> QED BY <2>1, <2>2
<1> HIDE DEF P
<1>6. SumFunctionOnSet(Priced, UNION {P[s] : s \in Subscriptions})
        = SumFunctionOnSet(w, Subscriptions)
  BY <1>1, <1>2, <1>3, PricedType, SumParts
<1> QED BY <1>4, <1>5, <1>6 DEF SumBills, Priced

(* Then the screens count nothing as received that did not come in.        *)
LEMMA ScreensCovered ==
  SettlementInv /\ AmountsStayZero /\ CoverInv => ReceivedIsCovered
<1> SUFFICES ASSUME SettlementInv, AmountsStayZero, CoverInv
             PROVE  ReceivedIsCovered
  OBVIOUS
<1> DEFINE paidOnes == [minAmount |-> 0, maxAmount |-> SumBills(Bills),
                        paymentStatus |-> "PAID"]
           anyAmount == [amountReceivedGreater |-> 0, amountReceivedLess |-> Collected,
                         amountPendingGreater |-> 0, amountPendingLess |-> 0]
           seen == {line.bill : line \in MemberBills(Bills, paidOnes)}
           paid == PaidBills(Bills)
<1>1. SumBills(seen) <= Collected
  <2>1. ASSUME NEW b \in FindByMembershipByQuery(Bills, paidOnes) PROVE b \in paid
    <3>1. "PAID" # None
      BY ReportsAssumption DEF ReportsAssumption, PaymentStatus
    <3>2. b \in Bills /\ "PAID" \in {None, bill[b].status}
      BY DEF FindByMembershipByQuery
    <3> QED BY <3>1, <3>2 DEF PaidBills
  <2>2. seen \in SUBSET paid BY <2>1 DEF MemberBills
  <2> HIDE DEF seen
  <2> QED BY <2>2, PaidCovered
<1>2. ASSUME NEW summary \in SubscriptionsScreen(Subscriptions, anyAmount)
      PROVE  summary.amountReceived <= Collected
  <2>1. PICK s \in Subscriptions : summary = SubscriptionSummary(s)
    BY DEF SubscriptionsScreen, FindByAndServiceFeeQuery
  <2>2. summary.amountReceived = Price[s] * Cardinality(PaidOf(s))
    BY <2>1 DEF SubscriptionSummary, PaidOf
  <2> QED BY <2>2, RaisedByPaid, PaidCovered
<1>3. SumFunctionOnSet(FeeRaised, Subscriptions) <= Collected
  BY RaisedByAll, PaidCovered
<1>4. ContributionGraph(<<Bills>>).yearAmount <= Collected
  <2> DEFINE months == <<Bills>>
             dated == {b \in UNION {months[m] : m \in DOMAIN months} :
                         bill[b].status # "NOT_PAID"}
  <2>1. ContributionGraph(months).yearAmount = SumFunctionOnSet(AmountPaid, dated)
    BY DEF ContributionGraph, SumTotalBillByMonthRange
  <2>2. dated \in SUBSET Bills OBVIOUS
  <2> HIDE DEF months, dated
  <2>3. \A b \in dated : AmountPaid[b] = 0 BY <2>2 DEF AmountPaid, AmountsStayZero
  <2>4. IsFiniteSet(dated) /\ Cardinality(dated) \in Nat
    BY <2>2, SumBillsType, FS_CardinalityType
  <2>5. SumFunctionOnSet(AmountPaid, dated) = 0 * Cardinality(dated)
    BY <2>3, <2>4, SumConstant
  <2>6. ContributionGraph(months).yearAmount = 0 BY <2>1, <2>4, <2>5
  <2> QED BY <2>6, CollectedType DEF months
<1>5. NewInvoice(Bills, Bills) >= DashBoard.totalExpectedDue - Collected
  <2>1. NewInvoice(Bills, Bills) = SumBills(Bills \ paid)
    <3>1. FindByMembershipAndCode(Bills, Bills) = Bills
      BY DEF FindByMembershipAndCode
    <3> QED BY <3>1 DEF NewInvoice, AmountAsked
  <2>2. DashBoard.totalExpectedDue = SumBills(Bills)
    <3>1. {b \in Bills : None \in {None, bill[b].status}} = Bills OBVIOUS
    <3> QED BY <3>1 DEF DashBoard, SumTotalAmount
  <2>3. paid \in SUBSET Bills BY DEF PaidBills
  <2>4. SumBills(Bills) = SumBills(paid) + SumBills(Bills \ paid)
    <3>1. paid \cup Bills = Bills BY <2>3
    <3> HIDE DEF paid
    <3> QED BY <2>3, <3>1, SumBillsRest
  <2>5. SumBills(paid) <= Collected BY PaidCovered
  <2>6. SumBills(paid) \in Nat /\ SumBills(Bills \ paid) \in Nat
    BY <2>3, SumBillsType
  <2> HIDE DEF paid
  <2> QED BY <2>1, <2>2, <2>4, <2>5, <2>6, CollectedType
<1> QED BY <1>1, <1>2, <1>3, <1>4, <1>5 DEF ReceivedIsCovered

(* Whatever screen counts it, what an association is said to have received *)
(* has come in, and what a new invoice leaves out has been paid: although  *)
(* invoices share bills, are created at any moment and settled in part or  *)
(* in full, in any order and at once.                                      *)
THEOREM ReceivedIsAlwaysCovered == SettlementSpec => []ReceivedIsCovered
<1>1. SettlementInit => CoverInv
  <2>1. SumBills({}) = 0 BY SumEmpty DEF SumBills
  <2>2. SettlementInit => Covers({})
    <3> SUFFICES ASSUME SettlementInit PROVE Covers({})
      OBVIOUS
    <3>1. transactions = <<>> BY DEF SettlementInit, PostingInit
    <3>2. Collected = 0
      <4>1. DOMAIN transactions = {} BY <3>1
      <4> QED BY <4>1, SumEmpty DEF Collected
    <3> QED BY <2>1, <3>2 DEF SettlementInit, Covers, PaidBills, Unpaid, NoInvoice
  <2> QED BY <2>2 DEF CoverInv
<1>2. SettlementSpec => []CoverInv
  BY <1>1, CoverKept, SettlementInvariant, InvoicesComeFirst, PTL DEF SettlementSpec
<1> QED
  BY <1>2, ScreensCovered, SettlementInvariant, AmountsNeverSpread, PTL
=============================================================================
