------------------------------- MODULE Posting -------------------------------
(***************************************************************************)
(* The part of a database transaction that books a payment: the pipeline   *)
(*   PaymentTransactionService.createPaymentTransaction                    *)
(*     -> WalletService.topUpWallet                                        *)
(*        -> WalletTransactionService.createWalletTransaction              *)
(* shared by the confirmation of a payment (Settlement) and the payout of  *)
(* a withdrawal (Withdrawal).                                              *)
(*                                                                         *)
(* A handler is one execution of that pipeline: an HTTP request in the API *)
(* process or a job in a worker process.  It yields at every await, so     *)
(* each action below is what runs between two awaits.  Rows are inserted   *)
(* and saved through the entity manager of the transaction: they are       *)
(* private to the handler (inserted, entries, answer) until it commits.    *)
(* Every read goes through `this.connection`, that is, another session:    *)
(* under READ COMMITTED it sees committed rows and takes no lock.          *)
(*                                                                         *)
(* One association, hence one wallet, is modelled: handlers of different   *)
(* associations write no row of each other (what the wallet screen lists   *)
(* of other wallets is in Reports).                                        *)
(***************************************************************************)
EXTENDS Integers, Sequences

CONSTANTS
  Handlers,   (* executions that may overlap                               *)
  Requests,   (* payment requests of the association                       *)
  TypeOf,     (* TypeOf[r]: paymentType of the request                     *)
  Amounts,    (* amounts, in minor units, the gateway can report           *)
  Inexact,    (* those the way to major units and back does not preserve   *)
  Opening,    (* wallet balance in the initial state                       *)
  Verdicts,   (* statuses an answer of the gateway may have; nothing reads *)
              (* them, so instances that do not ask about them need one    *)
  None        (* no handler, no request, no answer                         *)

PaymentType == {"CREDIT", "DEBIT"}

(* "absent" is a row that has not been inserted.                           *)
PaymentStatus ==
  {"absent", "NOT_PAID", "PARTIALLY_PAID", "PAID",
   "PENDING", "AWAITING_CONFIRMATION", "FAILED"}

Absent == [status |-> "absent", paid |-> 0]

(* VerificationResponseDto, without the fields no decision depends on.     *)
(* Its amount is data.amount * 100 in floating point, and data.amount the  *)
(* hundredth part.  Most amounts come back as they were; one that is       *)
(* Inexact comes back with a fraction (110 as 110.00000000000001), which   *)
(* a statement that writes it to a bigint column is refused for.           *)
Answers == [amount : Amounts, status : Verdicts]

ASSUME PostingAssumption ==
  /\ TypeOf \in [Requests -> PaymentType]
  /\ Amounts \subseteq Nat
  /\ Inexact \subseteq Amounts
  /\ Opening \in Nat
  /\ "successful" \in Verdicts
  /\ Verdicts \subseteq {"successful", "failed"}
  /\ None \notin Handlers
  /\ None \notin Requests
  /\ None \notin Answers

VARIABLES
  pc,                  (* pc[h]: what the handler does next                *)
  doing,               (* doing[h]: the payment request it works on        *)
  answer,              (* answer[h]: what the gateway told it              *)
  inserted,            (* inserted[h]: its uncommitted payment_transaction *)
  entries,             (* entries[h]: its uncommitted wallet_transaction   *)
  request,             (* payment_request rows: status and amount paid     *)
  requestLock,         (* requestLock[r]: whose uncommitted update of r    *)
  walletLock,          (* whose uncommitted update of the wallet row       *)
  transactions,        (* payment_transaction rows, in commit order        *)
  walletTransactions,  (* wallet_transaction rows, in commit order         *)
  balance              (* wallet.availableBalanceInMinorUnits              *)

localVars   == <<pc, doing, answer, inserted, entries>>
lockVars    == <<requestLock, walletLock>>
ledgerVars  == <<transactions, walletTransactions, balance>>
postingVars == <<localVars, lockVars, ledgerVars, request>>

(* createPaymentTransaction from its first read to the last save of        *)
(* topUpWallet.  "threw": a promise was rejected, the transaction is still *)
(* usable; "aborted": a statement failed, only a rollback is left.         *)
PostingStates ==
  {"check", "insert", "wallet", "saveWallet", "posted", "threw", "aborted"}

-----------------------------------------------------------------------------
(* Helpers.                                                                *)

BalanceAfter(type, before, amount) ==
  IF type = "CREDIT" THEN before + amount ELSE before - amount

(* One row per payment request: paymentRequestId is the join column of a   *)
(* one-to-one relation, hence unique.                                      *)
HasTransaction(r) ==
  \E i \in DOMAIN transactions : transactions[i].request = r

TransactionRow_noRequest(h) == [request |-> None, amount |-> answer[h].amount]

TransactionRow(h) == [request |-> doing[h], amount |-> answer[h].amount]

WalletRow_alwaysCredit(h, before) ==
  [request  |-> doing[h],
   amount   |-> answer[h].amount,
   previous |-> before,
   after    |-> before + answer[h].amount]

WalletRow(h, before) ==
  [request  |-> doing[h],
   amount   |-> answer[h].amount,
   previous |-> before,
   after    |-> BalanceAfter(TypeOf[doing[h]], before, answer[h].amount)]

(* The end of a transaction: locks are released, locals are garbage.       *)
Release(h) ==
  /\ requestLock' = [r \in Requests |->
                       IF requestLock[r] = h THEN None ELSE requestLock[r]]
  /\ walletLock' = IF walletLock = h THEN None ELSE walletLock

Forget(h) ==
  /\ doing' = [doing EXCEPT ![h] = None]
  /\ answer' = [answer EXCEPT ![h] = None]
  /\ inserted' = [inserted EXCEPT ![h] = <<>>]
  /\ entries' = [entries EXCEPT ![h] = <<>>]

(* Whether the handler has updated the row of request r, or waits for the  *)
(* handler that has: an UPDATE blocks until the row is free.               *)
LockRequest(h, r) ==
  /\ requestLock[r] \in {None, h}
  /\ requestLock' = [requestLock EXCEPT ![r] = h]

-----------------------------------------------------------------------------

PostingInit ==
  /\ pc = [h \in Handlers |-> "idle"]
  /\ doing = [h \in Handlers |-> None]
  /\ answer = [h \in Handlers |-> None]
  /\ inserted = [h \in Handlers |-> <<>>]
  /\ entries = [h \in Handlers |-> <<>>]
  /\ request = [r \in Requests |-> Absent]
  /\ requestLock = [r \in Requests |-> None]
  /\ walletLock = None
  /\ transactions = <<>>
  /\ walletTransactions = <<>>
  /\ balance = Opening

(* Go from one state to the next and leave everything else of the pipeline *)
(* alone but what the action itself assigns.                               *)
Goto(h, from, to) ==
  /\ pc[h] = from
  /\ pc' = [pc EXCEPT ![h] = to]

(* findOneItemByStatus, and the exception when it finds a row.             *)
CheckNoTransaction_waits(h) ==
  /\ ~ HasTransaction(doing[h])
  /\ Goto(h, "check", "insert")
  /\ UNCHANGED <<doing, answer, inserted, entries, lockVars, ledgerVars,
                 request>>

CheckNoTransaction(h) ==
  /\ Goto(h, "check", IF HasTransaction(doing[h]) THEN "threw" ELSE "insert")
  /\ UNCHANGED <<doing, answer, inserted, entries, lockVars, ledgerVars,
                 request>>

(* INSERT INTO payment_transaction: an amount with a fraction is refused   *)
(* when it is bound; else the unique index makes it wait for an            *)
(* uncommitted row of the same request, and fail on a committed one.       *)
IsWhole(h) == answer[h].amount \notin Inexact

NoRival(h) ==
  \A other \in Handlers \ {h} :
    \A i \in DOMAIN inserted[other] : inserted[other][i].request # doing[h]

InsertTransaction(h) ==
  /\ \/ /\ Goto(h, "insert", "aborted")
        /\ IsWhole(h) => NoRival(h) /\ HasTransaction(doing[h])
        /\ UNCHANGED inserted
     \/ /\ Goto(h, "insert", "wallet")
        /\ IsWhole(h) /\ NoRival(h) /\ ~ HasTransaction(doing[h])
        /\ inserted' = [inserted EXCEPT ![h] = <<TransactionRow(h)>>]
  /\ UNCHANGED <<doing, answer, entries, lockVars, ledgerVars,
                 request>>

(* The wallet is read outside the transaction, and the wallet_transaction  *)
(* row, with the balance it leaves, is computed from what was read.        *)
CreateWalletTransaction(h) ==
  /\ Goto(h, "wallet", "saveWallet")
  /\ entries' = [entries EXCEPT ![h] = <<WalletRow(h, balance)>>]
  /\ UNCHANGED <<doing, answer, inserted, lockVars, ledgerVars, request>>

(* entityManager.save(wallet): the new balance is an absolute value, taken *)
(* from the row just built; the update holds the wallet row to the end.    *)
SaveWallet_autocommit(h) ==
  /\ walletLock \in {None, h}
  /\ Goto(h, "saveWallet", "posted")
  /\ walletLock' = h
  /\ balance' = entries[h][1].after
  /\ UNCHANGED <<doing, answer, inserted, entries, requestLock,
                 transactions, walletTransactions, request>>

SaveWallet(h) ==
  /\ walletLock \in {None, h}
  /\ Goto(h, "saveWallet", "posted")
  /\ walletLock' = h
  /\ UNCHANGED <<doing, answer, inserted, entries, requestLock, ledgerVars,
                 request>>

(* A read through the other session, or nextval, is rejected: the session  *)
(* of the transaction is not concerned and stays usable.                   *)
ReadFails(h) ==
  /\ \E from \in {"check", "insert", "wallet"} : Goto(h, from, "threw")
  /\ UNCHANGED <<doing, answer, inserted, entries, lockVars, ledgerVars,
                 request>>

(* The two ways a transaction ends.                                        *)
CommitPosting(h) ==
  /\ transactions' = transactions \o inserted[h]
  /\ walletTransactions' = walletTransactions \o entries[h]
  /\ balance' = IF walletLock = h THEN entries[h][1].after ELSE balance
  /\ Forget(h)
  /\ Release(h)

RollbackPosting(h) ==
  /\ UNCHANGED ledgerVars
  /\ Forget(h)
  /\ Release(h)

PostingStep(h) ==
  \/ CheckNoTransaction(h)
  \/ InsertTransaction(h)
  \/ CreateWalletTransaction(h)
  \/ SaveWallet(h)

-----------------------------------------------------------------------------

TransactionRows == [request : Requests, amount : Amounts]
WalletRows ==
  [request : Requests, amount : Amounts, previous : Int, after : Int]

(* States every handler module adds its own to.                            *)
PostingTypeOK(states) ==
  /\ pc \in [Handlers -> states]
  /\ doing \in [Handlers -> Requests \cup {None}]
  /\ answer \in [Handlers -> Answers \cup {None}]
  /\ inserted \in [Handlers -> Seq(TransactionRows)]
  /\ entries \in [Handlers -> Seq(WalletRows)]
  /\ request \in [Requests -> [status : PaymentStatus, paid : Amounts \cup {0}]]
  /\ requestLock \in [Requests -> Handlers \cup {None}]
  /\ walletLock \in Handlers \cup {None}
  /\ transactions \in Seq(TransactionRows)
  /\ walletTransactions \in Seq(WalletRows)
  /\ balance \in Int
=============================================================================
