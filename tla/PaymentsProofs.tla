--------------------------- MODULE PaymentsProofs ---------------------------
(***************************************************************************)
(* Theorems about Payments: the wallet row under confirmations, payouts    *)
(* and changes of the bank account, for every set of handlers, requests,   *)
(* withdrawals and amounts and every set of faults.                        *)
(*                                                                         *)
(* The argument: whatever a handler of either side does, it does one of    *)
(* five things to the wallet: it moves on, reads the balance into the line *)
(* it builds, takes the row to save it, drops its line or books it (Acts). *)
(* Every theorem follows from what a handler holds at each place (Holds)   *)
(* and from what these five, and a change of the bank, do to it.           *)
(*                                                                         *)
(* That no wait is circular has an argument of its own: who has which row  *)
(* (Owns), and that rows are taken in one order.                           *)
(***************************************************************************)
EXTENDS Payments, TLAPS, SequenceTheorems

AtDesk == {"enqueue", "commitWithdrawal"}

(* The wallet_transaction is built, and not committed.                     *)
Entered == {"saveWallet", "posted"}

(* The payment_transaction is inserted, and not committed.                 *)
Booked == {"wallet"} \cup Entered

(* The gateway has answered, and the handler may still commit.             *)
Answered == {"saveRequest", "saveWithdrawal", "check", "insert"} \cup Booked

(* A payout that has compared the funds and may still commit.              *)
Covered == {"transfer", "saveWithdrawal", "check", "insert"} \cup Booked

(* And that has not yet read the balance it debits.                        *)
Counting == {"payout", "transfer", "saveWithdrawal", "check", "insert", "wallet"}

USE DEF PostingStates, SettlementStates, WithdrawalStates, AtDesk, Entered, Booked,
        Answered, Covered, Counting

(* The types of what handlers share, and of the change of the bank.        *)
HandlerTypes ==
  /\ pc \in [Handlers -> SettlementStates \cup WithdrawalStates]
  /\ doing \in [Handlers -> Requests \cup {None}]
  /\ answer \in [Handlers -> Answers \cup {None}]
  /\ inserted \in [Handlers -> Seq(TransactionRows)]
  /\ entries \in [Handlers -> Seq(WalletRows)]
  /\ job \in [Handlers -> Withdrawals \cup {None}]
  /\ funds \in [Handlers -> Int]
  /\ queue \in Seq(Withdrawals)
  /\ walletLock \in Handlers \cup {None}
  /\ transactions \in Seq(TransactionRows)
  /\ walletTransactions \in Seq(WalletRows)
  /\ balance \in Int

ChangeTypes ==
  /\ change \in [at : {"idle", "compare", "write"}, balance : Int \cup {None}]
  /\ overtaken \in BOOLEAN

(* What a handler holds, by its role and by where it is.                   *)
RoleOK(h) ==
  /\ h \in Api => /\ pc[h] \in SettlementStates
                  /\ pc[h] # "idle" => doing[h] \in Credits
  /\ h \in Workers => /\ pc[h] \in WithdrawalStates \ AtDesk
                      /\ pc[h] \in Covered => /\ doing[h] \in Debits
                                              /\ Amount[job[h]] <= funds[h]
                      /\ pc[h] \in Answered => answer[h].amount = Amount[job[h]]
  /\ h \notin Api \cup Workers => pc[h] \in AtDesk \cup {"idle"}
  /\ h \notin Api /\ pc[h] # "idle" => job[h] \in Withdrawals

(* The rows it has built, and the lock on the wallet.                      *)
RowsOK(h) ==
  /\ pc[h] \in Answered => answer[h] \in Answers
  /\ pc[h] \in Booked => inserted[h] = <<TransactionRow(h)>>
  /\ IF pc[h] \in Entered
       THEN \E before \in Int : entries[h] = <<WalletRow(h, before)>>
       ELSE entries[h] = <<>>
  /\ walletLock = h <=> pc[h] = "posted"

Holds(h) == RoleOK(h) /\ RowsOK(h)

WalletShape == HandlerTypes /\ ChangeTypes /\ \A h \in Handlers : Holds(h)

-----------------------------------------------------------------------------
(* What a step of a handler does to the wallet.                            *)

(* The other handlers are left alone.                                      *)
Others(h) ==
  \A k \in Handlers \ {h} :
    /\ pc'[k] = pc[k] /\ doing'[k] = doing[k] /\ answer'[k] = answer[k]
    /\ inserted'[k] = inserted[k] /\ entries'[k] = entries[k]
    /\ job'[k] = job[k] /\ funds'[k] = funds[k]

(* It goes on, and neither starts nor ends with a line of its own.         *)
Moves(h) ==
  /\ pc[h] \notin Entered /\ pc'[h] \notin Entered
  /\ pc'[h] = "wallet" => ~HasTransaction(doing'[h])
  /\ h \in Workers /\ pc'[h] \in Counting =>
       \/ funds'[h] = balance
       \/ pc[h] \in Counting /\ funds'[h] = funds[h]
  /\ UNCHANGED <<entries, walletLock, ledgerVars>>

(* It reads the balance and builds its line.                               *)
Reads(h) ==
  /\ pc[h] = "wallet" /\ pc'[h] = "saveWallet"
  /\ entries'[h] = <<WalletRow(h, balance)>>
  /\ UNCHANGED <<doing, answer, inserted, job, funds, walletLock, ledgerVars>>

(* It saves the wallet, and holds the row from there.                      *)
Saves(h) ==
  /\ pc[h] = "saveWallet" /\ pc'[h] = "posted"
  /\ walletLock \in {None, h} /\ walletLock' = h
  /\ UNCHANGED <<doing, answer, inserted, entries, job, funds, ledgerVars>>

(* It ends without a line, having released what it held; what it had       *)
(* inserted may have been committed.                                       *)
Drops(h) ==
  /\ h \in Api \cup Workers /\ pc[h] # "idle"
  /\ pc'[h] \in {"idle", "ack"}
  /\ entries'[h] = <<>>
  /\ walletLock' = IF walletLock = h THEN None ELSE walletLock
  /\ transactions' = transactions \/ transactions' = transactions \o inserted[h]
  /\ UNCHANGED <<walletTransactions, balance>>

(* It commits its line.                                                    *)
Books(h) ==
  /\ pc[h] = "posted" /\ pc'[h] \in {"idle", "ack"}
  /\ entries'[h] = <<>>
  /\ walletLock = h /\ walletLock' = None
  /\ transactions' = transactions \o inserted[h]
  /\ walletTransactions' = walletTransactions \o entries[h]
  /\ balance' = entries[h][1].after

Acts(h) == Moves(h) \/ Reads(h) \/ Saves(h) \/ Drops(h) \/ Books(h)

-----------------------------------------------------------------------------
(* Each step is one of these.                                              *)

(* A handler that does not take part keeps what it holds.                  *)
LEMMA Bystanders ==
  ASSUME WalletShape, NEW h \in Handlers, Others(h),
         \A k \in Handlers \ {h} : walletLock' = k <=> walletLock = k
  PROVE  \A k \in Handlers \ {h} : Holds(k)'
<1> SUFFICES ASSUME NEW k \in Handlers \ {h} PROVE Holds(k)'
  OBVIOUS
<1>1. /\ pc'[k] = pc[k] /\ doing'[k] = doing[k] /\ answer'[k] = answer[k]
      /\ inserted'[k] = inserted[k] /\ entries'[k] = entries[k]
      /\ job'[k] = job[k] /\ funds'[k] = funds[k]
      /\ walletLock' = k <=> walletLock = k
  BY DEF Others
<1>2. RoleOK(k) /\ RowsOK(k) BY DEF WalletShape, Holds
<1>3. RoleOK(k)' BY <1>1, <1>2 DEF RoleOK
<1>4. RowsOK(k)' BY <1>1, <1>2 DEF RowsOK, TransactionRow, WalletRow
<1> QED BY <1>3, <1>4 DEF Holds

(* What the constants are.                                                 *)
LEMMA Constants ==
  /\ None \notin Handlers /\ None \notin Requests /\ None \notin Answers
  /\ None \notin Withdrawals
  /\ Api \subseteq Handlers /\ Desk \subseteq Handlers /\ Workers \subseteq Handlers
  /\ Api \cap Workers = {} /\ Api \cap Desk = {} /\ Desk \cap Workers = {}
  /\ Amount \in [Withdrawals -> Amounts]
  /\ \A a \in Amounts : a \in Nat
  /\ \A w \in Withdrawals : [amount |-> Amount[w], status |-> "successful"] \in Answers
  /\ Opening \in Int
BY PostingAssumption, SettlementAssumption, WithdrawalAssumption, PaymentsAssumption
DEF PostingAssumption, SettlementAssumption, WithdrawalAssumption, PaymentsAssumption,
    Answers

(* The rows of a handler that has its answer.                              *)
LEMMA RowTypes ==
  ASSUME WalletShape, NEW h \in Handlers, doing[h] \in Requests, answer[h] \in Answers,
         NEW before \in Int
  PROVE  /\ <<TransactionRow(h)>> \in Seq(TransactionRows)
         /\ WalletRow(h, before) \in WalletRows
         /\ <<WalletRow(h, before)>> \in Seq(WalletRows)
<1>1. PICK r \in Requests, a \in Amounts : r = doing[h] /\ a = answer[h].amount
  BY DEF Answers
<1>2. a \in Int BY <1>1, Constants
<1>3. TransactionRow(h) \in TransactionRows
  BY <1>1 DEF TransactionRow, TransactionRows
<1>4. BalanceAfter(TypeOf[r], before, a) \in Int BY <1>2 DEF BalanceAfter
<1>5. WalletRow(h, before) \in WalletRows
  BY <1>1, <1>4 DEF WalletRow, WalletRows
<1> QED BY <1>3, <1>5

(* A handler that posts has a request and an answer.                       *)
LEMMA Posts ==
  ASSUME WalletShape, NEW h \in Api \cup Workers,
         pc[h] \in {"check", "insert"} \cup Booked
  PROVE  doing[h] \in Requests /\ answer[h] \in Answers
BY Constants DEF WalletShape, Holds, RoleOK, RowsOK, Credits, Debits

Effect(h) ==
  HandlerTypes' /\ Others(h) /\ Acts(h) /\ Holds(h)'

(* The first steps of a confirmation.                                      *)
LEMMA Confirming ==
  ASSUME WalletShape, NEW h \in Api,
         \/ \E r \in Requests : ValidatePayment(h, r)
         \/ Verify(h) \/ SaveRequest(h),
         UNCHANGED <<queue, job, funds>>
  PROVE  Effect(h)
<1> USE Constants DEF lockVars, ledgerVars
<1>0. /\ HandlerTypes /\ RoleOK(h) /\ RowsOK(h) /\ h \in Handlers
  BY DEF WalletShape, Holds
<1>1. CASE \E r \in Requests : ValidatePayment(h, r)
  <2>1. PICK r \in Requests : ValidatePayment(h, r) BY <1>1
  <2>2. /\ pc[h] = "idle" /\ pc' = [pc EXCEPT ![h] = "verify"]
        /\ doing' = [doing EXCEPT ![h] = r] /\ r \in Credits
        /\ UNCHANGED <<answer, inserted, entries, walletLock, ledgerVars>>
    BY <2>1 DEF ValidatePayment, Goto
  <2>3. HandlerTypes' BY <1>0, <2>2 DEF HandlerTypes
  <2>4. Others(h) BY <1>0, <2>2 DEF Others, HandlerTypes
  <2>5. Moves(h) BY <1>0, <2>2 DEF Moves, HandlerTypes
  <2>6. Holds(h)'
    BY <1>0, <2>2 DEF Holds, RoleOK, RowsOK, HandlerTypes
  <2> QED BY <2>3, <2>4, <2>5, <2>6 DEF Effect, Acts
<1>2. CASE Verify(h)
  <2>1. PICK a \in Answers : answer' = [answer EXCEPT ![h] = a] BY <1>2 DEF Verify
  <2>2. /\ pc[h] = "verify" /\ pc' = [pc EXCEPT ![h] = "saveRequest"]
        /\ UNCHANGED <<doing, inserted, entries, walletLock, ledgerVars>>
    BY <1>2 DEF Verify, Goto
  <2>3. HandlerTypes' BY <1>0, <2>1, <2>2 DEF HandlerTypes
  <2>4. Others(h) BY <1>0, <2>1, <2>2 DEF Others, HandlerTypes
  <2>5. Moves(h) BY <1>0, <2>2 DEF Moves, HandlerTypes
  <2>6. Holds(h)'
    BY <1>0, <2>1, <2>2 DEF Holds, RoleOK, RowsOK, HandlerTypes
  <2> QED BY <2>3, <2>4, <2>5, <2>6 DEF Effect, Acts
<1>3. CASE SaveRequest(h)
  <2>2. PICK to \in {"check", "aborted"} :
          /\ pc[h] = "saveRequest" /\ pc' = [pc EXCEPT ![h] = to]
          /\ UNCHANGED <<doing, answer, inserted, entries, walletLock, ledgerVars>>
    BY <1>3 DEF SaveRequest, Goto
  <2>3. HandlerTypes' BY <1>0, <2>2 DEF HandlerTypes
  <2>4. Others(h) BY <1>0, <2>2 DEF Others, HandlerTypes
  <2>5. Moves(h) BY <1>0, <2>2 DEF Moves, HandlerTypes
  <2>6. Holds(h)'
    BY <1>0, <2>2 DEF Holds, RoleOK, RowsOK, HandlerTypes
  <2> QED BY <2>3, <2>4, <2>5, <2>6 DEF Effect, Acts
<1> QED BY <1>1, <1>2, <1>3

(* The steps of the posting pipeline, on either side.                      *)
LEMMA PostingEffect ==
  ASSUME WalletShape, NEW h \in Api \cup Workers, PostingStep(h) \/ ReadFails(h),
         UNCHANGED <<queue, job, funds>>
  PROVE  Effect(h)
<1> USE Constants DEF lockVars, ledgerVars
<1>0. /\ HandlerTypes /\ RoleOK(h) /\ RowsOK(h) /\ h \in Handlers
  BY DEF WalletShape, Holds
<1>1. CASE CheckNoTransaction(h) \/ ReadFails(h)
  <2>1. PICK to \in {"insert", "threw"} :
          /\ pc[h] \in {"check", "insert", "wallet"} /\ pc' = [pc EXCEPT ![h] = to]
          /\ to = "insert" => pc[h] = "check"
          /\ UNCHANGED <<doing, answer, inserted, entries, walletLock, ledgerVars>>
    BY <1>1 DEF CheckNoTransaction, ReadFails, Goto
  <2>3. HandlerTypes' BY <1>0, <2>1 DEF HandlerTypes
  <2>4. Others(h) BY <1>0, <2>1 DEF Others, HandlerTypes
  <2>5. Moves(h) BY <1>0, <2>1 DEF Moves, HandlerTypes
  <2>6. Holds(h)'
    BY <1>0, <2>1 DEF Holds, RoleOK, RowsOK, HandlerTypes
  <2> QED BY <2>3, <2>4, <2>5, <2>6 DEF Effect, Acts
<1>2. CASE InsertTransaction(h)
  <2>1. PICK to \in {"wallet", "aborted"} :
          /\ pc[h] = "insert" /\ pc' = [pc EXCEPT ![h] = to]
          /\ IF to = "aborted"
               THEN inserted' = inserted
               ELSE /\ ~HasTransaction(doing[h])
                    /\ inserted' = [inserted EXCEPT ![h] = <<TransactionRow(h)>>]
          /\ UNCHANGED <<doing, answer, entries, walletLock, ledgerVars>>
    BY <1>2 DEF InsertTransaction, Goto
  <2>2. <<TransactionRow(h)>> \in Seq(TransactionRows) BY <1>0, <2>1, Posts, RowTypes
  <2>3. HandlerTypes'
    <3>1. inserted' \in [Handlers -> Seq(TransactionRows)]
      <4>1. PICK rows \in Seq(TransactionRows) : rows = <<TransactionRow(h)>> BY <2>2
      <4>2. inserted' = inserted \/ inserted' = [inserted EXCEPT ![h] = rows]
        BY <2>1, <4>1
      <4>3. inserted \in [Handlers -> Seq(TransactionRows)] BY <1>0 DEF HandlerTypes
      <4> HIDE DEF PostingStates, SettlementStates, WithdrawalStates
      <4> QED BY ONLY <4>2, <4>3
    <3> QED BY <1>0, <2>1, <3>1 DEF HandlerTypes
  <2>4. Others(h) BY <1>0, <2>1 DEF Others, HandlerTypes
  <2>5. Moves(h) BY <1>0, <2>1 DEF Moves, HandlerTypes
  <2>6. Holds(h)'
    BY <1>0, <2>1 DEF Holds, RoleOK, RowsOK, HandlerTypes, TransactionRow
  <2> QED BY <2>3, <2>4, <2>5, <2>6 DEF Effect, Acts
<1>3. CASE CreateWalletTransaction(h)
  <2>1. /\ pc[h] = "wallet" /\ pc' = [pc EXCEPT ![h] = "saveWallet"]
        /\ entries' = [entries EXCEPT ![h] = <<WalletRow(h, balance)>>]
        /\ UNCHANGED <<doing, answer, inserted, walletLock, ledgerVars>>
    BY <1>3 DEF CreateWalletTransaction, Goto
  <2>2. balance \in Int BY <1>0 DEF HandlerTypes
  <2>3. <<WalletRow(h, balance)>> \in Seq(WalletRows) BY <2>1, <2>2, Posts, RowTypes
  <2>4. HandlerTypes' BY <1>0, <2>1, <2>3 DEF HandlerTypes
  <2>5. Others(h) BY <1>0, <2>1 DEF Others, HandlerTypes
  <2>6. Reads(h) BY <1>0, <2>1 DEF Reads, HandlerTypes
  <2>7. RoleOK(h)' BY <1>0, <2>1 DEF RoleOK, HandlerTypes
  <2>8. RowsOK(h)'
    BY <1>0, <2>1, <2>2 DEF RowsOK, HandlerTypes, TransactionRow, WalletRow
  <2> QED BY <2>4, <2>5, <2>6, <2>7, <2>8 DEF Effect, Acts, Holds
<1>4. CASE SaveWallet(h)
  <2>1. /\ pc[h] = "saveWallet" /\ pc' = [pc EXCEPT ![h] = "posted"]
        /\ walletLock \in {None, h} /\ walletLock' = h
        /\ UNCHANGED <<doing, answer, inserted, entries, ledgerVars>>
    BY <1>4 DEF SaveWallet, Goto
  <2>4. HandlerTypes' BY <1>0, <2>1 DEF HandlerTypes
  <2>5. Others(h) BY <1>0, <2>1 DEF Others, HandlerTypes
  <2>6. Saves(h) BY <1>0, <2>1 DEF Saves, HandlerTypes
  <2>7. RoleOK(h)' BY <1>0, <2>1 DEF RoleOK, HandlerTypes
  <2>8. RowsOK(h)'
    BY <1>0, <2>1 DEF RowsOK, HandlerTypes, TransactionRow, WalletRow
  <2> QED BY <2>4, <2>5, <2>6, <2>7, <2>8 DEF Effect, Acts, Holds
<1> QED BY <1>1, <1>2, <1>3, <1>4 DEF PostingStep

(* The end of a transaction, however it ends.                              *)
LEMMA Ends ==
  ASSUME WalletShape, NEW h \in Api \cup Workers, Forget(h), Release(h),
         NEW to \in {"idle", "ack"}, pc' = [pc EXCEPT ![h] = to],
         to = "ack" => h \in Workers,
         queue' \in Seq(Withdrawals),
         pc[h] # "idle",
         \/ UNCHANGED <<job, funds>>
         \/ Drop(h) /\ to = "idle",
         \/ UNCHANGED ledgerVars
         \/ CommitPosting(h) /\ pc[h] \notin Entered \ {"posted"}
  PROVE  Effect(h)
<1> USE Constants DEF ledgerVars
<1>0. /\ HandlerTypes /\ RoleOK(h) /\ RowsOK(h) /\ h \in Handlers
  BY DEF WalletShape, Holds
<1>1. /\ doing' = [doing EXCEPT ![h] = None]
      /\ answer' = [answer EXCEPT ![h] = None]
      /\ inserted' = [inserted EXCEPT ![h] = <<>>]
      /\ entries' = [entries EXCEPT ![h] = <<>>]
      /\ walletLock' = IF walletLock = h THEN None ELSE walletLock
  BY DEF Forget, Release
<1>2. \A k \in Handlers \ {h} : job'[k] = job[k] /\ funds'[k] = funds[k]
  BY <1>0 DEF Drop, HandlerTypes
<1>3. Others(h) BY <1>0, <1>1, <1>2 DEF Others, HandlerTypes
<1>4. RoleOK(h)'
  <2>1. pc'[h] = to BY <1>0 DEF HandlerTypes
  <2>2. to = "ack" => job'[h] \in Withdrawals /\ h \notin Api
    BY <1>0 DEF RoleOK
  <2> QED BY <1>0, <2>1, <2>2 DEF RoleOK
<1>5. RowsOK(h)'
  BY <1>0, <1>1 DEF RowsOK, HandlerTypes
<1>6. /\ transactions' \in Seq(TransactionRows) /\ walletTransactions' \in Seq(WalletRows)
      /\ balance' \in Int
      /\ Drops(h) \/ Books(h)
  <2>1. /\ pc'[h] = to /\ entries'[h] = <<>>
        /\ transactions \in Seq(TransactionRows) /\ inserted[h] \in Seq(TransactionRows)
        /\ walletTransactions \in Seq(WalletRows) /\ entries[h] \in Seq(WalletRows)
        /\ balance \in Int
    BY <1>0, <1>1 DEF HandlerTypes
  <2>2. CASE UNCHANGED ledgerVars
    BY <1>1, <2>1, <2>2 DEF Drops
  <2>3. CASE CommitPosting(h) /\ pc[h] \notin Entered
    <3>1. entries[h] = <<>> /\ walletLock # h BY <1>0, <2>3 DEF RowsOK
    <3>2. /\ transactions' = transactions \o inserted[h]
          /\ walletTransactions' = walletTransactions \o <<>>
          /\ balance' = balance
      BY <2>3, <3>1 DEF CommitPosting
    <3>3. transactions' \in Seq(TransactionRows) BY <2>1, <3>2, ConcatProperties
    <3>4. walletTransactions' = walletTransactions BY <2>1, <3>2, ConcatEmptySeq
    <3> QED BY <1>1, <2>1, <3>2, <3>3, <3>4 DEF Drops
  <2>4. CASE CommitPosting(h) /\ pc[h] = "posted"
    <3>1. walletLock = h /\ \E before \in Int : entries[h] = <<WalletRow(h, before)>>
      BY <1>0, <2>4 DEF RowsOK
    <3>2. /\ transactions' = transactions \o inserted[h]
          /\ walletTransactions' = walletTransactions \o entries[h]
          /\ balance' = entries[h][1].after
      BY <2>4, <3>1 DEF CommitPosting
    <3>3. transactions' \in Seq(TransactionRows) /\ walletTransactions' \in Seq(WalletRows)
      BY <2>1, <3>2, ConcatProperties
    <3>4. balance' \in Int
      <4>1. PICK before \in Int : entries[h] = <<WalletRow(h, before)>> BY <3>1
      <4>2. doing[h] \in Requests /\ answer[h] \in Answers BY <2>4, Posts
      <4>3. WalletRow(h, before) \in WalletRows BY <4>2, RowTypes
      <4>4. entries[h][1] = WalletRow(h, before) BY <4>1
      <4> QED BY <3>2, <4>3, <4>4 DEF WalletRows
    <3> QED BY <1>1, <2>1, <2>4, <3>1, <3>2, <3>3, <3>4 DEF Books
  <2> QED BY <2>2, <2>3, <2>4
<1>7. HandlerTypes'
  <2>1. /\ job' \in [Handlers -> Withdrawals \cup {None}]
        /\ funds' \in [Handlers -> Int]
    <3>1. job \in [Handlers -> Withdrawals \cup {None}] /\ funds \in [Handlers -> Int]
      BY <1>0 DEF HandlerTypes
    <3>2. CASE UNCHANGED <<job, funds>> BY <3>1, <3>2
    <3>3. CASE Drop(h)
      <4>1. job' = [job EXCEPT ![h] = None] /\ funds' = [funds EXCEPT ![h] = 0]
        BY <3>3 DEF Drop
      <4> QED BY <3>1, <4>1
    <3> QED BY <3>2, <3>3
  <2>2. /\ inserted' \in [Handlers -> Seq(TransactionRows)]
        /\ entries' \in [Handlers -> Seq(WalletRows)]
    <3>1. <<>> \in Seq(TransactionRows) /\ <<>> \in Seq(WalletRows) BY EmptySeq
    <3> QED BY <1>0, <1>1, <3>1 DEF HandlerTypes
  <2> QED BY <1>0, <1>1, <1>6, <2>1, <2>2 DEF HandlerTypes
<1> QED BY <1>3, <1>4, <1>5, <1>6, <1>7 DEF Effect, Acts, Holds

(* The ends of a confirmation.                                             *)
LEMMA ConfirmationEnds ==
  ASSUME WalletShape, NEW h \in Api,
         CommitSettlement(h) \/ RollbackSettlement(h) \/ FailSettlement(h),
         UNCHANGED <<queue, job, funds>>
  PROVE  Effect(h)
<1>0. queue' \in Seq(Withdrawals) BY DEF WalletShape, HandlerTypes
<1>1. CASE CommitSettlement(h)
  <2>1. /\ pc' = [pc EXCEPT ![h] = "idle"] /\ pc[h] = "posted"
        /\ CommitPosting(h)
    BY <1>1 DEF CommitSettlement, Goto
  <2>2. Forget(h) /\ Release(h) BY <2>1 DEF CommitPosting
  <2>3. pc[h] # "idle" /\ pc[h] \notin Entered \ {"posted"} BY <2>1
  <2> QED BY <1>0, <2>1, <2>2, <2>3, Ends
<1>2. CASE RollbackSettlement(h) \/ FailSettlement(h)
  <2>1. /\ pc' = [pc EXCEPT ![h] = "idle"] /\ pc[h] # "idle"
        /\ RollbackPosting(h)
    BY <1>2 DEF RollbackSettlement, FailSettlement, Goto
  <2>2. Forget(h) /\ Release(h) /\ UNCHANGED ledgerVars BY <2>1 DEF RollbackPosting
  <2> QED BY <1>0, <2>1, <2>2, Ends
<1> QED BY <1>1, <1>2

(* The ends of a payout.                                                   *)
LEMMA PayoutEnds ==
  ASSUME WalletShape, NEW h \in Workers,
         CommitPayout(h) \/ Reject(h) \/ RollbackPayout(h) \/ FailPayout(h) \/ Crash(h)
  PROVE  Effect(h)
<1>0. /\ queue \in Seq(Withdrawals) /\ (pc[h] # "idle" => job[h] \in Withdrawals)
  BY Constants DEF WalletShape, HandlerTypes, Holds, RoleOK
<1>1. CASE CommitPayout(h) \/ Reject(h)
  <2>1. /\ pc' = [pc EXCEPT ![h] = "ack"] /\ pc[h] \in {"posted", "reject", "threw"}
        /\ CommitPosting(h)
        /\ UNCHANGED <<queue, job, funds>>
    BY <1>1 DEF CommitPayout, Reject, Goto, WritePayout, jobVars
  <2>2. Forget(h) /\ Release(h) BY <2>1 DEF CommitPosting
  <2>3. pc[h] # "idle" /\ pc[h] \notin Entered \ {"posted"} BY <2>1
  <2> QED BY <1>0, <2>1, <2>2, <2>3, Ends
<1>2. CASE RollbackPayout(h) \/ FailPayout(h) \/ Crash(h)
  <2>1. /\ pc' = [pc EXCEPT ![h] = "idle"] /\ pc[h] # "idle"
        /\ RollbackPosting(h) /\ Drop(h)
        /\ queue' = queue \/ queue' = <<job[h]>> \o queue
    BY <1>2 DEF RollbackPayout, FailPayout, Crash, Goto, EndRun, GiveUp, Restart
  <2>2. queue' \in Seq(Withdrawals)
    <3>1. <<job[h]>> \in Seq(Withdrawals) BY <1>0, <2>1
    <3> QED BY <1>0, <2>1, <3>1, ConcatProperties
  <2>3. Forget(h) /\ Release(h) /\ UNCHANGED ledgerVars BY <2>1 DEF RollbackPosting
  <2> QED BY <2>1, <2>2, <2>3, Ends
<1> QED BY <1>1, <1>2

(* A handler gives up its withdrawal and is idle.                          *)
LEMMA HandsOver ==
  ASSUME WalletShape, NEW h \in Handlers \ Api, pc[h] \in AtDesk \cup {"ack"},
         pc' = [pc EXCEPT ![h] = "idle"], Drop(h),
         UNCHANGED <<doing, answer, inserted, entries, walletLock, ledgerVars, queue>>
  PROVE  Effect(h)
<1> USE Constants DEF ledgerVars
<1>0. HandlerTypes /\ RoleOK(h) /\ RowsOK(h)
  BY DEF WalletShape, Holds
<1>1. job' = [job EXCEPT ![h] = None] /\ funds' = [funds EXCEPT ![h] = 0]
  BY DEF Drop
<1>2. HandlerTypes'
  <2>1. job' \in [Handlers -> Withdrawals \cup {None}] /\ funds' \in [Handlers -> Int]
    BY <1>0, <1>1 DEF HandlerTypes
  <2> QED BY <1>0, <2>1 DEF HandlerTypes
<1>3. Others(h) BY <1>0, <1>1 DEF Others, HandlerTypes
<1>4. Moves(h) BY <1>0 DEF Moves, HandlerTypes
<1>5. Holds(h)' BY <1>0 DEF Holds, RoleOK, RowsOK, HandlerTypes
<1> QED BY <1>2, <1>3, <1>4, <1>5 DEF Effect, Acts

(* The other steps of a payout.                                            *)
LEMMA PayingOut ==
  ASSUME WalletShape, NEW h \in Workers,
         \/ TakeJob(h) \/ Payout(h) \/ Refuse(h) \/ TransferDone(h) \/ TransferRefused(h)
         \/ TransferUnanswered(h) \/ SaveWithdrawal(h) \/ Ack(h)
  PROVE  Effect(h)
<1> USE Constants DEF lockVars, ledgerVars, jobVars, payoutVars
<1>0. /\ HandlerTypes /\ RoleOK(h) /\ RowsOK(h) /\ h \in Handlers
  BY DEF WalletShape, Holds
<1>1. CASE TakeJob(h)
  <2>1. /\ pc[h] = "idle" /\ pc' = [pc EXCEPT ![h] = "payout"]
        /\ job' = [job EXCEPT ![h] = Head(queue)] /\ funds' = [funds EXCEPT ![h] = balance]
        /\ queue # <<>> /\ queue' = Tail(queue)
        /\ UNCHANGED <<doing, answer, inserted, entries, walletLock, ledgerVars>>
    BY <1>1 DEF TakeJob, Goto
  <2>2. /\ Head(queue) \in Withdrawals /\ Tail(queue) \in Seq(Withdrawals)
        /\ balance \in Int
    BY <1>0, <2>1, HeadTailProperties DEF HandlerTypes
  <2>3. HandlerTypes'
    <3>1. job' \in [Handlers -> Withdrawals \cup {None}] /\ funds' \in [Handlers -> Int]
      BY <1>0, <2>1, <2>2 DEF HandlerTypes
    <3> QED BY <1>0, <2>1, <2>2, <3>1 DEF HandlerTypes
  <2>4. Others(h) BY <1>0, <2>1 DEF Others, HandlerTypes
  <2>5. Moves(h) BY <1>0, <2>1 DEF Moves, HandlerTypes
  <2>6. Holds(h)'
    BY <1>0, <2>1, <2>2 DEF Holds, RoleOK, RowsOK, HandlerTypes
  <2> QED BY <2>3, <2>4, <2>5, <2>6 DEF Effect, Acts
<1>2. CASE Payout(h)
  <2>1. /\ pc[h] = "payout"
        /\ UNCHANGED <<answer, inserted, entries, walletLock, ledgerVars, queue, job, funds>>
        /\ \/ pc' = [pc EXCEPT ![h] = "refuse"] /\ doing' = doing
           \/ /\ \E to \in {"noBank", "transfer"} : pc' = [pc EXCEPT ![h] = to]
              /\ funds[h] >= Amount[job[h]]
              /\ \E r \in Debits : doing' = [doing EXCEPT ![h] = r]
    BY <1>2 DEF Payout, Goto
  <2>2. job[h] \in Withdrawals /\ Amount[job[h]] \in Int /\ funds[h] \in Int
    BY <1>0, <2>1 DEF RoleOK, HandlerTypes
  <2>3. HandlerTypes'
    <3>1. pc' \in [Handlers -> SettlementStates \cup WithdrawalStates]
      BY <1>0, <2>1 DEF HandlerTypes
    <3>2. doing' \in [Handlers -> Requests \cup {None}]
      <4>1. doing \in [Handlers -> Requests \cup {None}] BY <1>0 DEF HandlerTypes
      <4>2. \A r \in Debits : r \in Requests \cup {None} BY DEF Debits
      <4>3. CASE doing' = doing BY <4>1, <4>3
      <4>4. CASE \E r \in Debits : doing' = [doing EXCEPT ![h] = r] BY <4>1, <4>2, <4>4
      <4> QED BY <2>1, <4>3, <4>4
    <3> QED BY <1>0, <2>1, <3>1, <3>2 DEF HandlerTypes
  <2>4. Others(h) BY <1>0, <2>1 DEF Others, HandlerTypes
  <2>5. Moves(h) BY <1>0, <2>1 DEF Moves, HandlerTypes
  <2>6. RoleOK(h)' BY <1>0, <2>1, <2>2 DEF RoleOK, HandlerTypes
  <2>7. RowsOK(h)' BY <1>0, <2>1 DEF RowsOK, HandlerTypes
  <2> QED BY <2>3, <2>4, <2>5, <2>6, <2>7 DEF Effect, Acts, Holds
<1>3. CASE Refuse(h) \/ TransferRefused(h) \/ TransferUnanswered(h) \/ SaveWithdrawal(h)
  <2>1. PICK to \in {"ack", "reject", "check"} :
          /\ pc[h] \in {"refuse", "transfer", "saveWithdrawal"}
          /\ pc' = [pc EXCEPT ![h] = to]
          /\ to = "check" => pc[h] = "saveWithdrawal"
          /\ UNCHANGED <<doing, answer, inserted, entries, walletLock, ledgerVars, queue,
                         job, funds>>
    BY <1>3 DEF Refuse, TransferRefused, TransferUnanswered, SaveWithdrawal, Goto
  <2>3. HandlerTypes' BY <1>0, <2>1 DEF HandlerTypes
  <2>4. Others(h) BY <1>0, <2>1 DEF Others, HandlerTypes
  <2>5. Moves(h) BY <1>0, <2>1 DEF Moves, HandlerTypes
  <2>6. RoleOK(h)' BY <1>0, <2>1 DEF RoleOK, HandlerTypes
  <2>7. RowsOK(h)' BY <1>0, <2>1 DEF RowsOK, HandlerTypes
  <2> QED BY <2>3, <2>4, <2>5, <2>6, <2>7 DEF Effect, Acts, Holds
<1>4. CASE TransferDone(h)
  <2>1. PICK a : a = [amount |-> Amount[job[h]], status |-> "successful"] OBVIOUS
  <2>2. /\ pc[h] = "transfer" /\ pc' = [pc EXCEPT ![h] = "saveWithdrawal"]
        /\ answer' = [answer EXCEPT ![h] = a]
        /\ UNCHANGED <<doing, inserted, entries, walletLock, ledgerVars, queue, job, funds>>
    BY <1>4, <2>1 DEF TransferDone, Goto
  <2>3. a \in Answers /\ a.amount = Amount[job[h]]
    BY <1>0, <2>1, <2>2 DEF RoleOK
  <2>4. HandlerTypes' BY <1>0, <2>2, <2>3 DEF HandlerTypes
  <2>5. Others(h) BY <1>0, <2>2 DEF Others, HandlerTypes
  <2>6. Moves(h) BY <1>0, <2>2 DEF Moves, HandlerTypes
  <2>7. RoleOK(h)' BY <1>0, <2>2, <2>3 DEF RoleOK, HandlerTypes
  <2>8. RowsOK(h)' BY <1>0, <2>2, <2>3 DEF RowsOK, HandlerTypes
  <2> QED BY <2>4, <2>5, <2>6, <2>7, <2>8 DEF Effect, Acts, Holds
<1>5. CASE Ack(h)
  <2>1. /\ pc[h] = "ack" /\ pc' = [pc EXCEPT ![h] = "idle"] /\ Drop(h)
        /\ UNCHANGED <<doing, answer, inserted, entries, walletLock, ledgerVars, queue>>
    BY <1>5 DEF Ack, Goto
  <2> QED BY <2>1, <1>0, HandsOver
<1> QED BY <1>1, <1>2, <1>3, <1>4, <1>5

(* The steps of a desk.                                                    *)
LEMMA AtTheDesk ==
  ASSUME WalletShape, NEW h \in Handlers,
         \/ \E w \in Withdrawals : InitiateWithdrawal(h, w)
         \/ Enqueue(h) \/ CommitWithdrawal(h) \/ FailInitiate(h)
  PROVE  Effect(h)
<1> USE Constants DEF lockVars, ledgerVars, jobVars, payoutVars
<1>0. HandlerTypes /\ RoleOK(h) /\ RowsOK(h)
  BY DEF WalletShape, Holds
<1>1. CASE \E w \in Withdrawals : InitiateWithdrawal(h, w)
  <2>1. PICK w \in Withdrawals : InitiateWithdrawal(h, w) BY <1>1
  <2>2. /\ pc[h] = "idle" /\ pc' = [pc EXCEPT ![h] = "enqueue"]
        /\ job' = [job EXCEPT ![h] = w] /\ h \in Desk
        /\ UNCHANGED <<doing, answer, inserted, entries, walletLock, ledgerVars, queue,
                       funds>>
    BY <2>1 DEF InitiateWithdrawal, Goto
  <2>3. HandlerTypes' BY <1>0, <2>2 DEF HandlerTypes
  <2>4. Others(h) BY <1>0, <2>2 DEF Others, HandlerTypes
  <2>5. Moves(h) BY <1>0, <2>2 DEF Moves, HandlerTypes
  <2>6. RoleOK(h)' BY <1>0, <2>2 DEF RoleOK, HandlerTypes
  <2>7. RowsOK(h)' BY <1>0, <2>2 DEF RowsOK, HandlerTypes
  <2> QED BY <2>3, <2>4, <2>5, <2>6, <2>7 DEF Effect, Acts, Holds
<1>2. CASE Enqueue(h)
  <2>1. /\ pc[h] = "enqueue" /\ pc' = [pc EXCEPT ![h] = "commitWithdrawal"]
        /\ queue' = Append(queue, job[h])
        /\ UNCHANGED <<doing, answer, inserted, entries, walletLock, ledgerVars, job,
                       funds>>
    BY <1>2 DEF Enqueue, Goto
  <2>2. h \notin Api \cup Workers /\ job[h] \in Withdrawals
    BY <1>0, <2>1 DEF RoleOK
  <2>3. queue' \in Seq(Withdrawals)
    BY <1>0, <2>1, <2>2, AppendProperties DEF HandlerTypes
  <2>4. HandlerTypes' BY <1>0, <2>1, <2>3 DEF HandlerTypes
  <2>5. Others(h) BY <1>0, <2>1 DEF Others, HandlerTypes
  <2>6. Moves(h) BY <1>0, <2>1, <2>2 DEF Moves, HandlerTypes
  <2>7. RoleOK(h)' BY <1>0, <2>1, <2>2 DEF RoleOK, HandlerTypes
  <2>8. RowsOK(h)' BY <1>0, <2>1 DEF RowsOK, HandlerTypes
  <2> QED BY <2>4, <2>5, <2>6, <2>7, <2>8 DEF Effect, Acts, Holds
<1>3. CASE CommitWithdrawal(h) \/ FailInitiate(h)
  <2>1. /\ pc[h] \in AtDesk /\ pc' = [pc EXCEPT ![h] = "idle"] /\ Drop(h)
        /\ UNCHANGED <<doing, answer, inserted, entries, walletLock, ledgerVars, queue>>
    BY <1>3 DEF CommitWithdrawal, FailInitiate, Goto
  <2>2. h \notin Api BY <1>0, <2>1 DEF RoleOK
  <2> QED BY <2>1, <2>2, HandsOver
<1> QED BY <1>1, <1>2, <1>3

-----------------------------------------------------------------------------
(* The shape of the state is invariant.                                    *)

Still ==
  UNCHANGED <<pc, doing, answer, inserted, entries, job, funds, walletLock, ledgerVars>>

(* A step is of a handler, of the change of the bank, or leaves the wallet *)
(* and all handlers alone.                                                 *)
LEMMA Kinds ==
  ASSUME WalletShape, [PaymentsNext]_paymentsVars
  PROVE  \/ BesideChange /\ \E h \in Handlers : Effect(h)
         \/ ChangeBank
         \/ Still /\ UNCHANGED <<change, overtaken>> /\ queue' \in Seq(Withdrawals)
<1> USE Constants
<1>0. queue \in Seq(Withdrawals) /\ overtaken \in BOOLEAN
  BY DEF WalletShape, HandlerTypes, ChangeTypes
<1>1. ASSUME UNCHANGED <<pc, doing, answer, inserted, entries, job, funds, walletLock,
                         ledgerVars>>,
             BesideChange, queue' \in Seq(Withdrawals)
      PROVE  Still /\ UNCHANGED <<change, overtaken>> /\ queue' \in Seq(Withdrawals)
  BY <1>0, <1>1 DEF Still, BesideChange, ledgerVars
<1>2. CASE MoneyIn /\ BesideChange
  <2>1. UNCHANGED <<queue, job, funds>> BY <1>2 DEF MoneyIn, jobVars, payoutVars
  <2>2. CASE \/ \E r \in Requests : Initiate(r)
             \/ \E i \in Invoices : CreateInvoice(i)
    <3>1. UNCHANGED <<pc, doing, answer, inserted, entries, walletLock, ledgerVars>>
      BY <2>2 DEF Initiate, CreateInvoice, postingVars, localVars, lockVars
    <3> QED BY <1>0, <1>1, <1>2, <2>1, <3>1
  <2>3. CASE \E h \in Handlers : ConfirmStep(h) \/ ConfirmEvent(h)
    <3>1. PICK h \in Handlers : ConfirmStep(h) \/ ConfirmEvent(h) BY <2>3
    <3>2. h \in Api BY <3>1 DEF ConfirmStep, ConfirmEvent
    <3>3. CASE \E r \in Requests : AnswerPaid(h, r)
      <4>1. UNCHANGED <<pc, doing, answer, inserted, entries, walletLock, ledgerVars>>
        BY <3>3 DEF AnswerPaid, settlementVars, postingVars, localVars, lockVars
      <4> QED BY <1>0, <1>1, <1>2, <2>1, <4>1
    <3>4. CASE \/ \E r \in Requests : ValidatePayment(h, r)
               \/ Verify(h) \/ SaveRequest(h)
      <4>1. Effect(h) BY <2>1, <3>2, <3>4, Confirming
      <4> QED BY <1>2, <4>1
    <3>5. CASE PostingStep(h) \/ ReadFails(h)
      <4>1. Effect(h) BY <2>1, <3>2, <3>5, PostingEffect
      <4> QED BY <1>2, <4>1
    <3>6. CASE CommitSettlement(h) \/ RollbackSettlement(h) \/ FailSettlement(h)
      <4>1. Effect(h) BY <2>1, <3>2, <3>6, ConfirmationEnds
      <4> QED BY <1>2, <4>1
    <3> QED BY <3>1, <3>3, <3>4, <3>5, <3>6 DEF ConfirmStep, ConfirmEvent
  <2> QED BY <1>2, <2>2, <2>3 DEF MoneyIn
<1>3. CASE MoneyOut /\ BesideChange
  <2>1. PICK h \in Handlers :
          \/ \E w \in Withdrawals : InitiateWithdrawal(h, w)
          \/ DeskStep(h) \/ WorkerStep(h) \/ WithdrawalFault(h)
    BY <1>3 DEF MoneyOut
  <2>2. CASE \/ \E w \in Withdrawals : InitiateWithdrawal(h, w)
             \/ Enqueue(h) \/ CommitWithdrawal(h) \/ FailInitiate(h)
    BY <1>3, <2>2, AtTheDesk
  <2>3. CASE h \in Workers /\ LoseJob(h)
    <3>1. /\ UNCHANGED <<pc, doing, answer, inserted, entries, job, funds, walletLock,
                         ledgerVars>>
          /\ queue' = Tail(queue) /\ queue # <<>>
      BY <2>3 DEF LoseJob, postingVars, localVars, lockVars, payoutVars
    <3>2. queue' \in Seq(Withdrawals) BY <1>0, <3>1, HeadTailProperties
    <3> QED BY <1>1, <1>3, <3>1, <3>2
  <2>4. TransferUnanswered(h) => h \in Workers
    BY DEF TransferUnanswered, Goto, WalletShape, Holds, RoleOK
  <2>5. CASE \/ h \in Workers /\ (\/ TakeJob(h) \/ Payout(h) \/ Refuse(h) \/ TransferDone(h)
                                  \/ TransferRefused(h) \/ SaveWithdrawal(h) \/ Ack(h))
             \/ TransferUnanswered(h)
    BY <1>3, <2>4, <2>5, PayingOut
  <2>6. CASE /\ h \in Workers
             /\ PostingStep(h) \/ ReadFails(h)
             /\ UNCHANGED <<jobVars, payoutVars>>
    <3>1. UNCHANGED <<queue, job, funds>> BY <2>6 DEF jobVars, payoutVars
    <3> QED BY <1>3, <2>6, <3>1, PostingEffect
  <2>7. CASE /\ h \in Workers
             /\ \/ CommitPayout(h) \/ Reject(h)
                \/ RollbackPayout(h) \/ FailPayout(h) \/ Crash(h)
    BY <1>3, <2>7, PayoutEnds
  <2>8. CASE DeskStep(h) BY <2>2, <2>8 DEF DeskStep
  <2>9. CASE WorkerStep(h)
    BY <2>3, <2>5, <2>6, <2>7, <2>9, Zenon DEF WorkerStep
  <2>10. CASE WithdrawalFault(h)
    <3>1. FailPayout(h) \/ Crash(h) => h \in Workers BY DEF FailPayout, Crash
    <3> QED BY <2>2, <2>5, <2>6, <2>7, <2>10, <3>1, Zenon DEF WithdrawalFault
  <2> QED BY <2>1, <2>2, <2>8, <2>9, <2>10, Zenon
<1>4. CASE \/ AtRest /\ UNCHANGED <<billingVars, changeVars>>
           \/ UNCHANGED paymentsVars
  BY <1>0, <1>4 DEF AtRest, Still, paymentsVars, changeVars, settlementVars, jobVars,
     payoutVars, withdrawalVars, postingVars, localVars, lockVars
<1> QED BY <1>2, <1>3, <1>4 DEF PaymentsNext

(* What a change of the bank does to the balance it has read.              *)
LEMMA BankEffect ==
  ASSUME WalletShape, ChangeBank
  PROVE  /\ UNCHANGED <<pc, doing, answer, inserted, entries, job, funds, walletLock, queue,
                        transactions, walletTransactions, overtaken>>
         /\ ChangeTypes'
         /\ \/ balance' = balance
            \/ change.at = "write" /\ walletLock = None /\ change.balance # None
               /\ balance' = change.balance
         /\ change'.at = "compare" => change'.balance = balance'
         /\ change'.at = "write" => /\ balance' = balance /\ change.at = "compare"
                                    /\ change'.balance \in {None, change.balance}
<1>0. /\ balance \in Int /\ overtaken \in BOOLEAN
      /\ change \in [at : {"idle", "compare", "write"}, balance : Int \cup {None}]
  BY DEF WalletShape, HandlerTypes, ChangeTypes
<1>1. UNCHANGED <<pc, doing, answer, inserted, entries, job, funds, walletLock, queue,
                  transactions, walletTransactions, overtaken>>
  BY DEF ChangeBank, localVars, lockVars, jobVars, payoutVars
<1>2. CASE UpdateAssociation /\ UNCHANGED balance
  BY <1>0, <1>1, <1>2 DEF UpdateAssociation, ChangeTypes
<1>3. CASE CompareWallet
  <2>1. PICK b \in Int \cup {None} :
          /\ change' = [at |-> "write", balance |-> b] /\ b \in {None, change.balance}
    BY <1>0, <1>3 DEF CompareWallet
  <2> QED BY <1>0, <1>1, <1>3, <2>1 DEF CompareWallet, ChangeTypes
<1>4. CASE SaveBank
  BY <1>0, <1>1, <1>4 DEF SaveBank, NoChange, ChangeTypes
<1>5. CASE FailChange
  BY <1>0, <1>1, <1>5 DEF FailChange, NoChange, ChangeTypes
<1> QED BY <1>2, <1>3, <1>4, <1>5 DEF ChangeBank

(* Nothing is under way and nothing is booked.                             *)
LEMMA ShapeAtInit == PaymentsInit => WalletShape
<1> SUFFICES ASSUME PaymentsInit PROVE WalletShape
  OBVIOUS
<1> USE Constants DEF PaymentsInit, SettlementInit, WithdrawalInit, PostingInit
<1>1. HandlerTypes
  <2>1. <<>> \in Seq(TransactionRows) /\ <<>> \in Seq(WalletRows) /\ <<>> \in Seq(Withdrawals)
    BY EmptySeq
  <2> QED BY <2>1 DEF HandlerTypes
<1>2. ChangeTypes BY DEF ChangeTypes, NoChange
<1>3. \A h \in Handlers : RoleOK(h) BY DEF RoleOK
<1>4. ASSUME NEW h \in Handlers PROVE RowsOK(h)
  <2>1. /\ pc[h] = "idle" /\ entries[h] = <<>> /\ walletLock = None /\ h # None
    OBVIOUS
  <2> QED BY ONLY <2>1 DEF RowsOK, Entered, Booked, Answered
<1> QED BY <1>1, <1>2, <1>3, <1>4 DEF WalletShape, Holds

(* No step of either side leaves the shape.                                *)
LEMMA ShapeKept ==
  ASSUME WalletShape, [PaymentsNext]_paymentsVars
  PROVE  WalletShape'
<1>0. HandlerTypes /\ ChangeTypes /\ \A h \in Handlers : RoleOK(h) /\ RowsOK(h)
  BY DEF WalletShape, Holds
<1>1. CASE BesideChange /\ \E h \in Handlers : Effect(h)
  <2>1. PICK h \in Handlers : Effect(h) BY <1>1
  <2>2. ChangeTypes' BY <1>0, <1>1 DEF BesideChange, ChangeTypes
  <2>3. \A k \in Handlers \ {h} : walletLock' = k <=> walletLock = k
    BY <2>1, Constants DEF Effect, Acts, Moves, Reads, Saves, Drops, Books
  <2>4. \A k \in Handlers \ {h} : Holds(k)' BY <2>1, <2>3, Bystanders DEF Effect
  <2> QED BY <2>1, <2>2, <2>4 DEF Effect, WalletShape
<1>2. CASE ChangeBank
  <2>1. /\ UNCHANGED <<pc, doing, answer, inserted, entries, job, funds, walletLock, queue,
                       transactions, walletTransactions>>
        /\ ChangeTypes'
    BY <1>2, BankEffect
  <2>2. balance' \in Int
    <3>1. balance \in Int /\ (change.balance # None => change.balance \in Int)
      BY <1>0 DEF HandlerTypes, ChangeTypes
    <3>2. balance' = balance \/ (change.balance # None /\ balance' = change.balance)
      BY <1>2, BankEffect
    <3> QED BY <3>1, <3>2
  <2>3. HandlerTypes' BY <1>0, <2>1, <2>2 DEF HandlerTypes
  <2>4. \A h \in Handlers : RoleOK(h)' BY <1>0, <2>1 DEF RoleOK
  <2>5. \A h \in Handlers : RowsOK(h)'
    BY <1>0, <2>1 DEF RowsOK, TransactionRow, WalletRow
  <2> QED BY <2>1, <2>3, <2>4, <2>5 DEF WalletShape, Holds
<1>3. CASE Still /\ UNCHANGED <<change, overtaken>> /\ queue' \in Seq(Withdrawals)
  <2>1. UNCHANGED <<pc, doing, answer, inserted, entries, job, funds, walletLock,
                    transactions, walletTransactions, balance>>
    BY <1>3 DEF Still, ledgerVars
  <2>2. HandlerTypes' /\ ChangeTypes'
    BY <1>0, <1>3, <2>1 DEF HandlerTypes, ChangeTypes
  <2>4. \A h \in Handlers : RoleOK(h)' BY <1>0, <2>1 DEF RoleOK
  <2>5. \A h \in Handlers : RowsOK(h)'
    BY <1>0, <2>1 DEF RowsOK, TransactionRow, WalletRow
  <2> QED BY <2>1, <2>2, <2>4, <2>5 DEF WalletShape, Holds
<1> QED BY <1>1, <1>2, <1>3, Kinds

(* What every handler holds is what its place says, in all reachable       *)
(* states of both sides together, the rows and the lock included.          *)
THEOREM WalletShapeHolds == PaymentsSpec => []WalletShape
<1> QED BY ShapeAtInit, ShapeKept, PTL DEF PaymentsSpec

-----------------------------------------------------------------------------
(* The balance is what the last line left.                                 *)

LastOK ==
  overtaken \/
  /\ balance = IF walletTransactions = <<>>
                 THEN Opening
                 ELSE walletTransactions[Len(walletTransactions)].after
  /\ change.at = "compare" => change.balance = balance
  /\ change.at = "write" => change.balance \in {None, balance}

(* The line a handler has built.                                           *)
LEMMA EntryOf ==
  ASSUME WalletShape, NEW h \in Handlers, pc[h] \in Entered
  PROVE  /\ Len(entries[h]) = 1
         /\ entries[h] \in Seq(WalletRows)
         /\ entries[h][1].previous \in Int /\ entries[h][1].after \in Int
         /\ h \in Api => entries[h][1].after >= entries[h][1].previous
         /\ h \in Workers => entries[h][1].after <= entries[h][1].previous
         /\ h \in Api \cup Workers
<1>0. HandlerTypes /\ RoleOK(h) /\ RowsOK(h) BY DEF WalletShape, Holds
<1>1. PICK before \in Int : entries[h] = <<WalletRow(h, before)>>
  BY <1>0 DEF RowsOK
<1>2. h \in Api \cup Workers /\ entries[h] \in Seq(WalletRows)
  BY <1>0 DEF RoleOK, HandlerTypes
<1>3. Len(entries[h]) = 1 /\ entries[h][1] = WalletRow(h, before) BY <1>1
<1>4. doing[h] \in Requests /\ answer[h] \in Answers BY <1>2, Posts
<1>5. PICK a \in Amounts : answer[h].amount = a BY <1>4 DEF Answers
<1>6. a \in Nat BY Constants
<1>7. /\ entries[h][1].previous = before
      /\ entries[h][1].after = BalanceAfter(TypeOf[doing[h]], before, a)
  BY <1>3, <1>5 DEF WalletRow
<1>8. /\ h \in Api => TypeOf[doing[h]] = "CREDIT"
      /\ h \in Workers => TypeOf[doing[h]] = "DEBIT"
  BY <1>0 DEF RoleOK, Credits, Debits
<1> QED BY <1>2, <1>3, <1>6, <1>7, <1>8 DEF BalanceAfter

(* A line that is committed is the last one.                               *)
LEMMA LastLine ==
  ASSUME NEW S, NEW s \in Seq(S), NEW e \in Seq(S), Len(e) = 1
  PROVE  /\ s \o e # <<>> /\ s \o e # s /\ (s \o e)[Len(s \o e)] = e[1]
         /\ Len(s \o e) \in DOMAIN (s \o e)
<1>1. Len(s \o e) = Len(s) + Len(e) /\ Len(s) \in Nat
  BY ConcatProperties, LenProperties
<1>2. (s \o e)[Len(s) + 1] = e[1]
  <2>1. \A i \in 1 .. Len(s) + Len(e) :
          (s \o e)[i] = IF i <= Len(s) THEN s[i] ELSE e[i - Len(s)]
    BY ConcatProperties
  <2>2. Len(s) + 1 \in 1 .. Len(s) + Len(e) /\ ~(Len(s) + 1 <= Len(s))
    BY <1>1
  <2> QED BY <1>1, <2>1, <2>2
<1>3. s \o e \in Seq(S) BY ConcatProperties
<1>4. Len(s \o e) \in DOMAIN (s \o e) BY <1>1, <1>3, LenProperties
<1> QED BY <1>1, <1>2, <1>4

(* No step moves the balance away from the last line, unless it overtakes. *)
LEMMA LastKept ==
  ASSUME WalletShape, LastOK, [PaymentsNext]_paymentsVars
  PROVE  LastOK'
<1> SUFFICES ASSUME ~overtaken' PROVE LastOK'
  BY DEF LastOK
<1>0. /\ walletTransactions \in Seq(WalletRows) /\ change.at \in {"idle", "compare", "write"}
  BY DEF WalletShape, HandlerTypes, ChangeTypes
<1>1. CASE BesideChange /\ \E h \in Handlers : Effect(h)
  <2>1. PICK h \in Handlers : Effect(h) BY <1>1
  <2>2. /\ ~overtaken /\ change' = change
        /\ change.at = "idle" \/ walletTransactions' = walletTransactions
    BY <1>1 DEF BesideChange
  <2>3. CASE UNCHANGED <<walletTransactions, balance>>
    BY <2>2, <2>3 DEF LastOK
  <2>4. CASE Books(h)
    <3>1. Len(entries[h]) = 1 /\ entries[h] \in Seq(WalletRows) BY <2>4, EntryOf DEF Books
    <3>2. walletTransactions' = walletTransactions \o entries[h]
          /\ balance' = entries[h][1].after
      BY <2>4 DEF Books
    <3>3. /\ walletTransactions' # <<>> /\ walletTransactions' # walletTransactions
          /\ walletTransactions'[Len(walletTransactions')] = entries[h][1]
      BY <1>0, <3>1, <3>2, LastLine
    <3> QED BY <2>2, <3>2, <3>3 DEF LastOK
  <2> QED BY <2>1, <2>3, <2>4 DEF Effect, Acts, Moves, Reads, Saves, Drops, ledgerVars
<1>2. CASE ChangeBank
  <2>1. /\ UNCHANGED <<walletTransactions, overtaken>>
        /\ \/ balance' = balance
           \/ change.at = "write" /\ change.balance # None /\ balance' = change.balance
        /\ change'.at = "compare" => change'.balance = balance'
        /\ change'.at = "write" => /\ balance' = balance /\ change.at = "compare"
                                   /\ change'.balance \in {None, change.balance}
    BY <1>2, BankEffect
  <2> QED BY <2>1 DEF LastOK
<1>3. CASE Still /\ UNCHANGED <<change, overtaken>>
  BY <1>3 DEF Still, ledgerVars, LastOK
<1> QED BY <1>1, <1>2, <1>3, Kinds

(* The wallet shows what its last committed transaction left, whichever    *)
(* side wrote it, with any number of confirmations and payouts at once,    *)
(* unless a payment was booked while the bank account was being changed:   *)
(* the absolute balance is written under the row lock that orders commits. *)
THEOREM BalanceFollowsTheLines == PaymentsSpec => []BalanceIsLastLine
<1>1. PaymentsInit => LastOK
  BY DEF PaymentsInit, SettlementInit, WithdrawalInit, PostingInit, LastOK, NoChange
<1>2. LastOK => BalanceIsLastLine BY DEF LastOK, BalanceIsLastLine
<1> QED BY <1>1, <1>2, WalletShapeHolds, LastKept, PTL DEF PaymentsSpec

-----------------------------------------------------------------------------
(* The wallet is not overdrawn.                                            *)

(* One confirmation at a time, and one worker.                             *)
OneOfEach ==
  /\ \A h, k \in Api : h = k
  /\ \A h, k \in Workers : h = k

(* A confirmation starts from no less than the wallet has, so its lost     *)
(* update can only add to it; a payout relies on no more than there is.    *)
FundsOK ==
  overtaken \/
  /\ balance >= 0
  /\ \A h \in Api : pc[h] \in Entered => entries[h][1].previous >= balance
  /\ \A h \in Workers :
       /\ pc[h] \in Counting => funds[h] <= balance
       /\ pc[h] \in Entered => /\ entries[h][1].previous <= balance
                               /\ entries[h][1].after >= 0

(* The line a payout builds from the balance it reads.                     *)
LEMMA PayoutLine ==
  ASSUME WalletShape, NEW h \in Handlers, h \in Api \cup Workers, pc[h] = "wallet",
         balance >= 0, h \in Workers => funds[h] <= balance
  PROVE  /\ WalletRow(h, balance).previous = balance
         /\ h \in Workers => WalletRow(h, balance).after >= 0
<1>0. HandlerTypes /\ RoleOK(h) BY DEF WalletShape, Holds
<1>1. WalletRow(h, balance).previous = balance BY DEF WalletRow
<1>2. ASSUME h \in Workers PROVE WalletRow(h, balance).after >= 0
  <2>1. PICK a, f, b \in Int :
          a = Amount[job[h]] /\ f = funds[h] /\ b = balance
    BY <1>0, <1>2, Constants DEF RoleOK, HandlerTypes
  <2>2. a <= f /\ f <= b /\ answer[h].amount = a /\ TypeOf[doing[h]] = "DEBIT"
    BY <1>0, <1>2, <2>1, Constants DEF RoleOK, Debits
  <2>3. WalletRow(h, balance).after = b - a
    BY <2>1, <2>2 DEF WalletRow, BalanceAfter
  <2> QED BY <2>2, <2>3
<1> QED BY <1>1, <1>2

(* No step of one confirmation, one payout or a change lowers the wallet   *)
(* below what the payout relies on.                                        *)
LEMMA FundsKept ==
  ASSUME OneOfEach, WalletShape, WalletShape', LastOK, FundsOK, [PaymentsNext]_paymentsVars
  PROVE  FundsOK'
<1> SUFFICES ASSUME ~overtaken' PROVE FundsOK'
  BY DEF FundsOK
<1> USE Constants
<1>0. /\ HandlerTypes /\ HandlerTypes'
      /\ \A h \in Handlers : pc[h] \in Entered =>
           /\ entries[h][1].previous \in Int /\ entries[h][1].after \in Int
           /\ h \in Api => entries[h][1].after >= entries[h][1].previous
           /\ h \in Workers => entries[h][1].after <= entries[h][1].previous
           /\ h \in Api \cup Workers
  BY EntryOf DEF WalletShape
<1>1. CASE BesideChange /\ \E h \in Handlers : Effect(h)
  <2>1. PICK h \in Handlers : Effect(h) BY <1>1
  <2>2. ~overtaken BY <1>1 DEF BesideChange
  <2>3. /\ balance >= 0
        /\ \A k \in Api : pc[k] \in Entered => entries[k][1].previous >= balance
        /\ \A k \in Workers :
             /\ pc[k] \in Counting => funds[k] <= balance
             /\ pc[k] \in Entered => /\ entries[k][1].previous <= balance
                                     /\ entries[k][1].after >= 0
    BY <2>2 DEF FundsOK
  <2>4. \A k \in Handlers \ {h} :
          pc'[k] = pc[k] /\ entries'[k] = entries[k] /\ funds'[k] = funds[k]
    BY <2>1 DEF Effect, Others
  <2>5. balance \in Int /\ balance' \in Int /\ (\A k \in Handlers : funds[k] \in Int)
    BY <1>0 DEF HandlerTypes
  <2>6. CASE Moves(h)
    <3>1. /\ balance' = balance /\ pc'[h] \notin Entered
          /\ h \in Workers /\ pc'[h] \in Counting => funds'[h] <= balance
      BY <2>3, <2>5, <2>6 DEF Moves, ledgerVars
    <3> QED BY <2>3, <2>4, <3>1 DEF FundsOK
  <2>7. CASE Reads(h)
    <3>1. /\ pc[h] = "wallet" /\ pc'[h] = "saveWallet" /\ balance' = balance
          /\ entries'[h][1] = WalletRow(h, balance)
      BY <2>7 DEF Reads, ledgerVars
    <3>2. h \in Api \cup Workers
      BY <3>1 DEF WalletShape, Holds, RoleOK
    <3>3. /\ entries'[h][1].previous = balance
          /\ h \in Workers => entries'[h][1].after >= 0
      BY <2>3, <3>1, <3>2, PayoutLine
    <3> QED BY <2>3, <2>4, <2>5, <3>1, <3>3 DEF FundsOK
  <2>8. CASE Saves(h)
    <3>1. /\ pc[h] = "saveWallet" /\ pc'[h] = "posted"
          /\ balance' = balance /\ entries' = entries
      BY <2>8 DEF Saves, ledgerVars
    <3> QED BY <2>3, <2>4, <3>1 DEF FundsOK
  <2>9. CASE Drops(h)
    <3>1. balance' = balance /\ pc'[h] \in {"idle", "ack"}
      BY <2>9 DEF Drops
    <3> QED BY <2>3, <2>4, <3>1 DEF FundsOK
  <2>10. CASE Books(h)
    <3>1. /\ pc[h] = "posted" /\ pc'[h] \in {"idle", "ack"}
          /\ balance' = entries[h][1].after
      BY <2>10 DEF Books
    <3>2. h \in Api \cup Workers BY <1>0, <3>1
    <3>3. CASE h \in Api
      <4>1. balance' >= balance BY <1>0, <2>3, <2>5, <3>1, <3>3
      <4>2. \A k \in Api : k = h BY <3>3 DEF OneOfEach
      <4>3. \A k \in Workers : k \in Handlers \ {h} BY <3>3
      <4>4. ASSUME NEW k \in Workers
            PROVE  /\ pc[k] \in Counting => funds[k] <= balance'
                   /\ pc[k] \in Entered => entries[k][1].previous <= balance'
        BY <1>0, <2>3, <2>5, <4>1
      <4>5. balance' >= 0 BY <2>3, <2>5, <4>1
      <4> QED BY <2>3, <2>4, <3>1, <4>2, <4>3, <4>4, <4>5 DEF FundsOK
    <3>4. CASE h \in Workers
      <4>1. balance' <= balance /\ balance' >= 0 BY <1>0, <2>3, <2>5, <3>1, <3>4
      <4>2. \A k \in Workers : k = h BY <3>4 DEF OneOfEach
      <4>3. \A k \in Api : k \in Handlers \ {h} BY <3>4
      <4>4. \A k \in Api : pc[k] \in Entered => entries[k][1].previous >= balance'
        BY <1>0, <2>3, <2>5, <4>1
      <4> QED BY <2>4, <3>1, <4>1, <4>2, <4>3, <4>4 DEF FundsOK
    <3> QED BY <3>2, <3>3, <3>4
  <2> QED BY <2>1, <2>6, <2>7, <2>8, <2>9, <2>10 DEF Effect, Acts
<1>2. CASE ChangeBank
  <2>1. /\ UNCHANGED <<pc, entries, funds, overtaken>>
        /\ \/ balance' = balance
           \/ change.at = "write" /\ change.balance # None /\ balance' = change.balance
    BY <1>2, BankEffect
  <2>2. balance' = balance BY <2>1 DEF LastOK
  <2> QED BY <2>1, <2>2 DEF FundsOK
<1>3. CASE Still /\ UNCHANGED <<change, overtaken>>
  BY <1>3 DEF Still, ledgerVars, FundsOK
<1> QED BY <1>1, <1>2, <1>3, Kinds

(* One confirmation and one payout at a time never overdraw the wallet,    *)
(* whatever they fail at and however often a job runs again, though each   *)
(* reads the balance without a lock and either may overwrite the other's   *)
(* update: the confirmation can only raise it, and the payout debits no    *)
(* more than it compared.  A change of the bank account beside them is     *)
(* excepted.                                                               *)
THEOREM NeverOverdrawn == OneOfEach /\ PaymentsSpec => []NoOverdraft
<1>1. PaymentsInit => FundsOK /\ LastOK
  <2> SUFFICES ASSUME PaymentsInit PROVE FundsOK /\ LastOK
    OBVIOUS
  <2>1. /\ \A h \in Handlers : pc[h] = "idle"
        /\ balance = Opening /\ walletTransactions = <<>> /\ change.at = "idle"
    BY DEF PaymentsInit, SettlementInit, WithdrawalInit, PostingInit, NoChange
  <2>2. balance >= 0 BY <2>1, PostingAssumption DEF PostingAssumption
  <2> QED BY <2>1, <2>2, Constants DEF FundsOK, LastOK
<1>2. FundsOK => NoOverdraft BY DEF FundsOK, NoOverdraft
<1>3. CASE OneOfEach
  <2>1. WalletShape /\ WalletShape' /\ LastOK /\ FundsOK /\ [PaymentsNext]_paymentsVars
          => FundsOK'
    BY <1>3, FundsKept
  <2> QED BY <1>1, <1>2, <2>1, LastKept, WalletShapeHolds, PTL DEF PaymentsSpec
<1> QED BY <1>3

-----------------------------------------------------------------------------
(* Confirmations, payouts and changes that do not overlap.                 *)

(* Nobody else moves the balance a payment has read, and the request it    *)
(* pays has no line yet.                                                   *)
SerialInv ==
  /\ Alone
  /\ ~overtaken
  /\ \A i \in DOMAIN walletTransactions : HasTransaction(walletTransactions[i].request)
  /\ \A h \in Handlers :
       /\ pc[h] \in Booked => ~HasTransaction(doing[h])
       /\ pc[h] \in Entered => entries[h] = <<WalletRow(h, balance)>>

(* A request that has a row keeps it.                                      *)
LEMMA RowStays ==
  ASSUME WalletShape, NEW h \in Handlers, NEW r,
         transactions' = transactions \/ transactions' = transactions \o inserted[h]
  PROVE  HasTransaction(r) => HasTransaction(r)'
<1>1. transactions \in Seq(TransactionRows) /\ inserted[h] \in Seq(TransactionRows)
  BY DEF WalletShape, HandlerTypes
<1>2. CASE transactions' = transactions BY <1>2 DEF HasTransaction
<1>3. CASE transactions' = transactions \o inserted[h]
  <2>1. /\ DOMAIN transactions' = 1 .. Len(transactions) + Len(inserted[h])
        /\ \A i \in 1 .. Len(transactions) : transactions'[i] = transactions[i]
        /\ DOMAIN transactions = 1 .. Len(transactions)
        /\ Len(transactions) \in Nat /\ Len(inserted[h]) \in Nat
    BY <1>1, <1>3, ConcatProperties, LenProperties
  <2> QED BY <2>1 DEF HasTransaction
<1> QED BY <1>2, <1>3

(* A commit of a payment, when payments do not overlap.                    *)
LEMMA SerialBooking ==
  ASSUME WalletShape, SerialInv, NEW h \in Handlers, Books(h)
  PROVE  /\ doing[h] \in Requests /\ answer[h].amount \in Amounts
         /\ h \in Api \cup Workers
         /\ ~HasTransaction(doing[h])
         /\ \E i \in DOMAIN transactions' : transactions'[i].request = doing[h]
         /\ walletTransactions' = Append(walletTransactions, WalletRow(h, balance))
         /\ balance' = WalletRow(h, balance).after
         /\ \A i \in DOMAIN walletTransactions' :
              \/ i \in DOMAIN walletTransactions
                 /\ walletTransactions'[i] = walletTransactions[i]
              \/ walletTransactions'[i].request = doing[h]
<1>0. /\ HandlerTypes /\ RowsOK(h) /\ pc[h] = "posted"
      /\ entries[h] = <<WalletRow(h, balance)>> /\ ~HasTransaction(doing[h])
      /\ transactions' = transactions \o inserted[h]
      /\ walletTransactions' = walletTransactions \o entries[h]
      /\ balance' = entries[h][1].after
  BY DEF WalletShape, Holds, SerialInv, Books
<1>1. h \in Api \cup Workers BY <1>0, EntryOf
<1>2. doing[h] \in Requests /\ answer[h] \in Answers BY <1>0, <1>1, Posts
<1>3. answer[h].amount \in Amounts BY <1>2 DEF Answers
<1>4. \E i \in DOMAIN transactions' : transactions'[i].request = doing[h]
  <2>1. inserted[h] = <<TransactionRow(h)>> BY <1>0 DEF RowsOK
  <2>2. transactions \in Seq(TransactionRows) /\ inserted[h] \in Seq(TransactionRows)
    BY <1>0 DEF HandlerTypes
  <2>3. Len(inserted[h]) = 1 /\ inserted[h][1] = TransactionRow(h) BY <2>1
  <2>4. inserted[h][1].request = doing[h] BY <2>3 DEF TransactionRow
  <2>5. /\ transactions'[Len(transactions')] = inserted[h][1]
        /\ Len(transactions') \in DOMAIN transactions'
    BY <1>0, <2>2, <2>3, LastLine
  <2> QED BY <2>4, <2>5
<1>5. PICK row \in WalletRows : row = WalletRow(h, balance)
  BY <1>0, <1>2, RowTypes DEF HandlerTypes
<1>6. walletTransactions' = Append(walletTransactions, row)
  BY <1>0, <1>5, AppendIsConcat DEF HandlerTypes
<1>7. entries[h][1] = row /\ row.request = doing[h]
  BY <1>0, <1>5 DEF WalletRow
<1>8. \A i \in DOMAIN walletTransactions' :
        \/ i \in DOMAIN walletTransactions /\ walletTransactions'[i] = walletTransactions[i]
        \/ walletTransactions'[i].request = doing[h]
  BY <1>0, <1>6, <1>7, AppendProperties, LenProperties DEF HandlerTypes
<1> QED BY <1>0, <1>1, <1>2, <1>3, <1>4, <1>5, <1>6, <1>7, <1>8

(* Steps that do not overlap keep it so.                                   *)
LEMMA SerialKept ==
  ASSUME WalletShape, SerialInv, LastOK, [PaymentsNext]_paymentsVars, Alone'
  PROVE  SerialInv'
<1> USE Constants
<1>0. /\ HandlerTypes /\ Alone /\ ~overtaken
      /\ \A h \in Handlers : RoleOK(h)
      /\ \A i \in DOMAIN walletTransactions : HasTransaction(walletTransactions[i].request)
      /\ \A h \in Handlers :
           /\ pc[h] \in Booked => ~HasTransaction(doing[h])
           /\ pc[h] \in Entered => entries[h] = <<WalletRow(h, balance)>>
  BY DEF WalletShape, Holds, SerialInv
<1>1. \A h \in Handlers : pc[h] \in Booked => Busy(h)
  BY <1>0 DEF RoleOK, Busy
<1>2. CASE BesideChange /\ \E h \in Handlers : Effect(h)
  <2>1. PICK h \in Handlers : Effect(h) BY <1>2
  <2>2. \A k \in Handlers \ {h} :
          /\ pc'[k] = pc[k] /\ doing'[k] = doing[k] /\ answer'[k] = answer[k]
          /\ entries'[k] = entries[k]
    BY <2>1 DEF Effect, Others
  <2>3. CASE Books(h)
    <3>1. /\ ~HasTransaction(doing[h])
          /\ \E i \in DOMAIN transactions' : transactions'[i].request = doing[h]
          /\ \A i \in DOMAIN walletTransactions' :
               \/ i \in DOMAIN walletTransactions
                  /\ walletTransactions'[i] = walletTransactions[i]
               \/ walletTransactions'[i].request = doing[h]
          /\ pc[h] = "posted" /\ pc'[h] \in {"idle", "ack"}
          /\ transactions' = transactions \o inserted[h]
      BY <2>3, SerialBooking DEF Books
    <3>2. Busy(h) BY <1>1, <3>1
    <3>3. \A k \in Handlers \ {h} : pc'[k] \notin Booked
      BY <1>0, <1>1, <2>2, <3>2 DEF Alone
    <3>4. ~overtaken' BY <1>0, <1>2, <3>2 DEF BesideChange, Alone
    <3>5. ASSUME NEW i \in DOMAIN walletTransactions'
          PROVE  HasTransaction(walletTransactions[i].request)'
      <4>1. CASE /\ i \in DOMAIN walletTransactions
                 /\ walletTransactions'[i] = walletTransactions[i]
        <5>1. PICK r : r = walletTransactions[i].request OBVIOUS
        <5>2. HasTransaction(r) => HasTransaction(r)' BY <3>1, RowStays
        <5>3. HasTransaction(r) BY <1>0, <4>1, <5>1
        <5>4. walletTransactions'[i].request = r BY <4>1, <5>1
        <5> QED BY <5>2, <5>3, <5>4
      <4>2. CASE walletTransactions'[i].request = doing[h]
        BY <3>1, <4>2 DEF HasTransaction
      <4> QED BY <3>1, <4>1, <4>2
    <3> QED BY <3>1, <3>3, <3>4, <3>5 DEF SerialInv
  <2>4. CASE Drops(h)
    <3>1. /\ Busy(h) /\ pc'[h] \in {"idle", "ack"}
          /\ transactions' = transactions \/ transactions' = transactions \o inserted[h]
          /\ UNCHANGED <<walletTransactions, balance>>
      BY <2>4 DEF Drops, Busy
    <3>3. \A k \in Handlers \ {h} : pc'[k] \notin Booked
      BY <1>0, <1>1, <2>2, <3>1 DEF Alone
    <3>4. ~overtaken' BY <1>0, <1>2, <3>1 DEF BesideChange
    <3>5. ASSUME NEW i \in DOMAIN walletTransactions'
          PROVE  HasTransaction(walletTransactions[i].request)'
      <4>1. PICK r : r = walletTransactions[i].request OBVIOUS
      <4>2. HasTransaction(r) => HasTransaction(r)' BY <3>1, RowStays
      <4>3. HasTransaction(r) BY <1>0, <3>1, <4>1
      <4>4. walletTransactions'[i].request = r BY <3>1, <4>1
      <4> QED BY <4>2, <4>3, <4>4
    <3> QED BY <3>1, <3>3, <3>4, <3>5 DEF SerialInv
  <2>5. CASE Moves(h) \/ Reads(h) \/ Saves(h)
    <3>1. UNCHANGED <<transactions, walletTransactions, balance>>
      BY <2>5 DEF Moves, Reads, Saves, ledgerVars
    <3>2. ~overtaken' BY <1>0, <1>2, <3>1 DEF BesideChange
    <3>3. \A r : HasTransaction(r)' <=> HasTransaction(r)
      BY <3>1 DEF HasTransaction
    <3>4. \A i \in DOMAIN walletTransactions' :
            HasTransaction(walletTransactions[i].request)'
      BY <1>0, <3>1 DEF HasTransaction
    <3>5. /\ pc'[h] \in Booked => ~HasTransaction(doing'[h])
          /\ pc'[h] \in Entered => entries'[h] = <<WalletRow(h, balance)>>
          /\ pc'[h] \in Entered => doing'[h] = doing[h] /\ answer'[h] = answer[h]
      BY <1>0, <2>5 DEF Moves, Reads, Saves
    <3>6. \A k \in Handlers :
            /\ pc'[k] \in Booked => ~HasTransaction(doing'[k])
            /\ pc'[k] \in Entered => /\ entries'[k] = <<WalletRow(k, balance)>>
                                     /\ doing'[k] = doing[k] /\ answer'[k] = answer[k]
      BY <1>0, <2>2, <3>5
    <3>7. \A k \in Handlers :
            /\ pc'[k] \in Booked => ~HasTransaction(doing[k])'
            /\ pc'[k] \in Entered => entries'[k] = <<WalletRow(k, balance)>>'
      BY <3>1, <3>6 DEF WalletRow, HasTransaction
    <3> QED BY <3>2, <3>4, <3>7 DEF SerialInv
  <2> QED BY <2>1, <2>3, <2>4, <2>5 DEF Effect, Acts
<1>3. CASE ChangeBank
  <2>1. /\ UNCHANGED <<pc, doing, answer, entries, transactions, walletTransactions,
                       overtaken>>
        /\ \/ balance' = balance
           \/ change.at = "write" /\ change.balance # None /\ balance' = change.balance
    BY <1>3, BankEffect
  <2>2. balance' = balance BY <1>0, <2>1 DEF LastOK
  <2> QED BY <1>0, <2>1, <2>2 DEF SerialInv, HasTransaction, WalletRow
<1>4. CASE Still /\ UNCHANGED <<change, overtaken>>
  BY <1>0, <1>4 DEF Still, ledgerVars, SerialInv, HasTransaction, WalletRow
<1> QED BY <1>2, <1>3, <1>4, Kinds

(* A commit of a payment is a step of the ledger, everything else leaves   *)
(* it alone.                                                               *)
LEMMA StepOfLedger ==
  ASSUME WalletShape, SerialInv, LastOK, [PaymentsNext]_paymentsVars
  PROVE  [SettlementLedger!Next]_(SettlementLedger!vars)
<1>1. CASE UNCHANGED <<walletTransactions, balance>>
  BY <1>1 DEF SettlementLedger!vars
<1>2. ASSUME NEW h \in Handlers, Books(h) PROVE SettlementLedger!Next
  <2>1. /\ doing[h] \in Requests /\ answer[h].amount \in Amounts
        /\ ~HasTransaction(doing[h])
        /\ walletTransactions' = Append(walletTransactions, WalletRow(h, balance))
        /\ balance' = WalletRow(h, balance).after
    BY <1>2, SerialBooking
  <2>2. WalletRow(h, balance) =
          SettlementLedger!Line(doing[h], answer[h].amount, balance)
    BY DEF WalletRow, BalanceAfter, SettlementLedger!Line,
       SettlementLedger!BalanceAfter
  <2>3. ~SettlementLedger!Posted(doing[h])
    BY <2>1 DEF SerialInv, SettlementLedger!Posted
  <2>4. SettlementLedger!Post(doing[h], answer[h].amount)
    BY <2>1, <2>2, <2>3 DEF SettlementLedger!Post
  <2> QED BY <2>1, <2>4 DEF SettlementLedger!Next
<1>3. CASE \E h \in Handlers : Effect(h)
  <2>1. PICK h \in Handlers : Effect(h) BY <1>3
  <2>2. Books(h) \/ UNCHANGED <<walletTransactions, balance>>
    BY <2>1 DEF Effect, Acts, Moves, Reads, Saves, Drops, ledgerVars
  <2> QED BY <1>1, <1>2, <2>2
<1>4. CASE ChangeBank
  <2>1. /\ UNCHANGED walletTransactions
        /\ \/ balance' = balance
           \/ change.at = "write" /\ change.balance # None /\ balance' = change.balance
    BY <1>4, BankEffect
  <2>2. balance' = balance BY <2>1 DEF LastOK, SerialInv
  <2> QED BY <1>1, <2>1, <2>2
<1>5. CASE Still BY <1>1, <1>5 DEF Still, ledgerVars
<1> QED BY <1>3, <1>4, <1>5, Kinds

(* When confirmations, payouts and changes of the bank account do not      *)
(* overlap, each payment reaches the wallet in one indivisible step, and   *)
(* once, whatever fails on the way and however often a job is run again.   *)
THEOREM SerialPaymentsImplementLedger == SerialPaymentsSpec => ImplementsLedger
<1>1. PaymentsInit => SettlementLedger!Init /\ SerialInv /\ LastOK
  BY DEF PaymentsInit, SettlementInit, WithdrawalInit, PostingInit, NoChange,
     SettlementLedger!Init, SerialInv, LastOK, Alone, Busy
<1>2. [PaymentsNext /\ Alone']_paymentsVars => [PaymentsNext]_paymentsVars
  OBVIOUS
<1>3. SerialInv /\ [PaymentsNext /\ Alone']_paymentsVars => Alone'
  BY DEF SerialInv, Alone, Busy, paymentsVars, settlementVars, postingVars, localVars,
     changeVars
<1> QED
  BY <1>1, <1>2, <1>3, ShapeAtInit, ShapeKept, LastKept, SerialKept, StepOfLedger, PTL
  DEF SerialPaymentsSpec, ImplementsLedger, SettlementLedger!Spec

(* The lines of the wallet are then a chain, over both sides, that ends in *)
(* the balance the wallet shows: no payment in or out starts from another  *)
(* balance than the one before it left.                                    *)
THEOREM SerialPaymentsChained == SerialPaymentsSpec => []LedgerChained
<1>1. SettlementLedger!LedgerAssumption
  BY PostingAssumption DEF PostingAssumption, PaymentType,
     SettlementLedger!LedgerAssumption, SettlementLedger!PaymentType
<1>2. SettlementLedger!Spec => []SettlementLedger!Chained
  BY <1>1, SettlementLedger!BookChained
<1> QED
  BY <1>2, SerialPaymentsImplementLedger, PTL DEF ImplementsLedger, LedgerChained

-----------------------------------------------------------------------------
(* Who waits for whom.                                                     *)

(* Handler h waits for k: for the row of its request or of its withdrawal, *)
(* for that of the wallet, or for a payment transaction of its request     *)
(* that is inserted and not committed.                                     *)
WaitsFor(h, k) ==
  /\ h # k
  /\ \/ pc[h] = "saveRequest" /\ requestLock[doing[h]] = k
     \/ /\ h \in Workers
        /\ pc[h] \in {"refuse", "saveWithdrawal", "reject", "threw"}
        /\ withdrawalLock[job[h]] = k
     \/ /\ pc[h] = "insert"
        /\ \E i \in DOMAIN inserted[k] : inserted[k][i].request = doing[h]
     \/ pc[h] = "saveWallet" /\ walletLock = k

(* Who is waited for is under way, and waits for nobody or for one that    *)
(* does not wait; the row of the wallet is never held by one that waits.   *)
WaitsAreShort ==
  /\ \A h, k \in Handlers : WaitsFor(h, k) =>
       /\ pc[k] \in PostingStates
       /\ \A l, m \in Handlers : ~ (WaitsFor(k, l) /\ WaitsFor(l, m))
  /\ \A l, k \in Handlers : walletLock = l => ~ WaitsFor(l, k)

(* A handler holds rows only while it posts, and then those of its own     *)
(* request or withdrawal; a payout has a request no other payout has.      *)
Owns(h) ==
  /\ \A r \in Requests :
       requestLock[r] = h => h \in Api /\ pc[h] \in PostingStates /\ doing[h] = r
  /\ \A w \in Withdrawals :
       withdrawalLock[w] = h => h \in Workers /\ pc[h] \in PostingStates
  /\ pc[h] \in PostingStates =>
       /\ h \in Api /\ pc[h] # "aborted" => requestLock[doing[h]] = h
       /\ h \in Workers => withdrawalLock[job[h]] = h
  /\ \A i \in DOMAIN inserted[h] :
       pc[h] \in Booked \cup {"threw"} /\ inserted[h][i].request = doing[h]
  /\ h \in Workers /\ doing[h] # None =>
       doing[h] \in Debits /\ \A k \in Workers \ {h} : doing[k] # doing[h]

RowsHeld ==
  /\ requestLock \in [Requests -> Handlers \cup {None}]
  /\ withdrawalLock \in [Withdrawals -> Handlers \cup {None}]
  /\ \A h \in Handlers : Owns(h)

(* It is enough to look at what a step does to its own handler, and that   *)
(* it takes no row for another one and none from it.                       *)
LEMMA OwnRows ==
  ASSUME WalletShape, RowsHeld, NEW h \in Handlers,
         \A k \in Handlers \ {h} :
           /\ pc'[k] = pc[k] /\ doing'[k] = doing[k]
           /\ job'[k] = job[k] /\ inserted'[k] = inserted[k],
         requestLock' \in [Requests -> Handlers \cup {None}],
         withdrawalLock' \in [Withdrawals -> Handlers \cup {None}],
         \A k \in Handlers \ {h} :
           /\ \A r \in Requests : requestLock'[r] = k <=> requestLock[r] = k
           /\ \A w \in Withdrawals : withdrawalLock'[w] = k <=> withdrawalLock[w] = k,
         Owns(h)'
  PROVE  RowsHeld'
<1>1. ASSUME NEW k \in Handlers, k # h PROVE Owns(k)'
  <2>1. /\ pc'[k] = pc[k] /\ doing'[k] = doing[k]
        /\ job'[k] = job[k] /\ inserted'[k] = inserted[k]
        /\ \A r \in Requests : requestLock'[r] = k <=> requestLock[r] = k
        /\ \A w \in Withdrawals : withdrawalLock'[w] = k <=> withdrawalLock[w] = k
    BY <1>1
  <2>2. Owns(k) BY DEF RowsHeld
  <2>3. ASSUME k \in Workers, doing[k] # None, NEW l \in Workers \ {k}
        PROVE  doing'[l] # doing'[k]
    <3>1. CASE l # h
      <4>1. l \in Handlers BY Constants
      <4>2. doing'[l] = doing[l] BY <3>1, <4>1
      <4> QED BY <2>1, <2>2, <2>3, <4>2 DEF Owns
    <3>2. CASE l = h
      <4>1. doing'[h] # None => doing'[k] # doing'[h]
        BY <1>1, <2>3, <3>2 DEF Owns
      <4> QED BY <2>1, <2>3, <3>2, <4>1
    <3> QED BY <3>1, <3>2
  <2>4. \A r \in Requests :
          requestLock'[r] = k => k \in Api /\ pc'[k] \in PostingStates /\ doing'[k] = r
    BY <2>1, <2>2 DEF Owns
  <2>5. \A w \in Withdrawals :
          withdrawalLock'[w] = k => k \in Workers /\ pc'[k] \in PostingStates
    BY <2>1, <2>2 DEF Owns
  <2>6. pc'[k] \in PostingStates =>
          /\ k \in Api /\ pc'[k] # "aborted" => requestLock'[doing'[k]] = k
          /\ k \in Workers => withdrawalLock'[job'[k]] = k
    <3>1. /\ k \in Api /\ pc[k] \in PostingStates => doing[k] \in Requests
          /\ k \in Workers /\ pc[k] \in PostingStates => job[k] \in Withdrawals
      BY Constants DEF WalletShape, Holds, RoleOK, Credits
    <3> QED BY <2>1, <2>2, <3>1 DEF Owns
  <2>7. \A i \in DOMAIN inserted'[k] :
          pc'[k] \in Booked \cup {"threw"} /\ inserted'[k][i].request = doing'[k]
    BY <2>1, <2>2 DEF Owns
  <2>8. k \in Workers /\ doing'[k] # None =>
          doing'[k] \in Debits /\ \A l \in Workers \ {k} : doing'[l] # doing'[k]
    BY <2>1, <2>2, <2>3 DEF Owns
  <2> QED BY <2>4, <2>5, <2>6, <2>7, <2>8 DEF Owns
<1> QED BY <1>1 DEF RowsHeld

(* What a handler has while it does not post: no row, and nothing inserted. *)
LEMMA Rowless ==
  ASSUME RowsHeld, NEW h \in Handlers, pc[h] \notin PostingStates
  PROVE  /\ \A r \in Requests : requestLock[r] # h
         /\ \A w \in Withdrawals : withdrawalLock[w] # h
         /\ DOMAIN inserted[h] = {}
BY DEF RowsHeld, Owns

(* A step that takes no row and inserts nothing, and goes neither into the *)
(* posting of a payment nor out of it.                                     *)
LEMMA Passing ==
  ASSUME WalletShape, RowsHeld, NEW h \in Handlers,
         pc' = [pc EXCEPT ![h] = pc'[h]],
         pc'[h] \in PostingStates <=> pc[h] \in PostingStates,
         pc[h] = "aborted" => pc'[h] = "aborted",
         pc[h] \in Booked \cup {"threw"} => pc'[h] \in Booked \cup {"threw"},
         \/ UNCHANGED job
         \/ job' = [job EXCEPT ![h] = job'[h]] /\ pc[h] \notin PostingStates,
         UNCHANGED <<doing, inserted, requestLock, withdrawalLock>>
  PROVE  RowsHeld'
<1>1. /\ job \in [Handlers -> Withdrawals \cup {None}]
      /\ pc \in [Handlers -> SettlementStates \cup WithdrawalStates]
  BY DEF WalletShape, HandlerTypes
<1>2. \A k \in Handlers \ {h} : pc'[k] = pc[k] /\ job'[k] = job[k] BY <1>1
<1>3. Owns(h) BY DEF RowsHeld
<1>4. pc[h] \in PostingStates => job'[h] = job[h] BY <1>1
<1>5. Owns(h)' BY <1>3, <1>4 DEF Owns
<1>6. /\ requestLock' \in [Requests -> Handlers \cup {None}]
      /\ withdrawalLock' \in [Withdrawals -> Handlers \cup {None}]
  BY DEF RowsHeld
<1> QED BY <1>2, <1>5, <1>6, OwnRows

(* A transaction that ends has nothing any more.                           *)
LEMMA Ending ==
  ASSUME WalletShape, RowsHeld, NEW h \in Handlers, Forget(h), Release(h),
         NEW to \in {"idle", "ack"}, pc' = [pc EXCEPT ![h] = to],
         UNCHANGED job \/ Drop(h),
         \/ ReleaseWithdrawal(h)
         \/ h \in Api /\ UNCHANGED withdrawalLock
  PROVE  RowsHeld'
<1>1. /\ pc \in [Handlers -> SettlementStates \cup WithdrawalStates]
      /\ doing \in [Handlers -> Requests \cup {None}]
      /\ inserted \in [Handlers -> Seq(TransactionRows)]
      /\ job \in [Handlers -> Withdrawals \cup {None}]
      /\ requestLock \in [Requests -> Handlers \cup {None}]
      /\ withdrawalLock \in [Withdrawals -> Handlers \cup {None}]
      /\ None \notin Handlers /\ Api \cap Workers = {}
  BY Constants DEF WalletShape, HandlerTypes, RowsHeld
<1>2. \A k \in Handlers \ {h} :
        /\ pc'[k] = pc[k] /\ doing'[k] = doing[k]
        /\ job'[k] = job[k] /\ inserted'[k] = inserted[k]
  BY <1>1 DEF Forget, Drop
<1>3. pc'[h] = to /\ doing'[h] = None /\ inserted'[h] = <<>>
  BY <1>1 DEF Forget
<1>4. /\ requestLock' \in [Requests -> Handlers \cup {None}]
      /\ \A r \in Requests : requestLock'[r] # h
      /\ \A k \in Handlers \ {h}, r \in Requests : requestLock'[r] = k <=> requestLock[r] = k
  BY <1>1 DEF Release
<1>5. /\ withdrawalLock' \in [Withdrawals -> Handlers \cup {None}]
      /\ \A w \in Withdrawals : withdrawalLock'[w] # h
      /\ \A k \in Handlers \ {h}, w \in Withdrawals :
           withdrawalLock'[w] = k <=> withdrawalLock[w] = k
  <2>1. CASE ReleaseWithdrawal(h) BY <1>1, <2>1 DEF ReleaseWithdrawal
  <2>2. CASE h \in Api /\ UNCHANGED withdrawalLock
    <3>1. \A w \in Withdrawals : withdrawalLock[w] = h => h \in Workers
      BY DEF RowsHeld, Owns
    <3> QED BY <1>1, <2>2, <3>1
  <2> QED BY <2>1, <2>2
<1>6. Owns(h)' BY <1>3, <1>4, <1>5 DEF Owns
<1> QED BY <1>2, <1>4, <1>5, <1>6, OwnRows

(* The row a handler inserts is for its request.                           *)
LEMMA Inserting ==
  ASSUME WalletShape, RowsHeld, NEW h \in Handlers, InsertTransaction(h),
         UNCHANGED <<job, withdrawalLock>>
  PROVE  RowsHeld'
<1>1. /\ pc \in [Handlers -> SettlementStates \cup WithdrawalStates]
      /\ inserted \in [Handlers -> Seq(TransactionRows)]
  BY DEF WalletShape, HandlerTypes
<1>2. /\ pc[h] = "insert" /\ pc'[h] \in PostingStates
      /\ \A k \in Handlers \ {h} : pc'[k] = pc[k] /\ inserted'[k] = inserted[k]
      /\ \/ inserted'[h] = inserted[h]
         \/ pc'[h] = "wallet" /\ inserted'[h] = <<TransactionRow(h)>>
      /\ UNCHANGED <<doing, requestLock>>
  BY <1>1 DEF InsertTransaction, Goto, lockVars
<1>3. Owns(h) BY DEF RowsHeld
<1>4. \A i \in DOMAIN inserted'[h] : pc'[h] = "wallet" /\ inserted'[h][i].request = doing[h]
  <2>1. CASE inserted'[h] = inserted[h] BY <1>2, <1>3, <2>1 DEF Owns
  <2>2. CASE pc'[h] = "wallet" /\ inserted'[h] = <<TransactionRow(h)>>
    <3>1. TransactionRow(h).request = doing[h] BY DEF TransactionRow
    <3> QED BY <2>2, <3>1
  <2> QED BY <1>2, <2>1, <2>2
<1>5. h \in Workers /\ doing'[h] # None =>
        doing'[h] \in Debits /\ \A k \in Workers \ {h} : doing'[k] # doing'[h]
  BY <1>2, <1>3 DEF Owns
<1>6. Owns(h)' BY <1>2, <1>3, <1>4, <1>5 DEF Owns
<1>7. /\ requestLock' \in [Requests -> Handlers \cup {None}]
      /\ withdrawalLock' \in [Withdrawals -> Handlers \cup {None}]
  BY <1>2 DEF RowsHeld
<1> QED BY <1>2, <1>6, <1>7, OwnRows

(* Rows are held as they should be after a step of a confirmation.         *)
LEMMA ConfirmationRows ==
  ASSUME WalletShape, RowsHeld, NEW h \in Api, ConfirmStep(h) \/ ConfirmEvent(h),
         UNCHANGED payoutVars
  PROVE  RowsHeld'
<1>1. /\ pc \in [Handlers -> SettlementStates \cup WithdrawalStates]
      /\ doing \in [Handlers -> Requests \cup {None}]
      /\ inserted \in [Handlers -> Seq(TransactionRows)]
      /\ h \in Handlers /\ h \notin Workers
      /\ UNCHANGED <<job, withdrawalLock>>
      /\ pc[h] # "idle" => doing[h] \in Credits
  BY Constants DEF WalletShape, HandlerTypes, payoutVars, Holds, RoleOK
<1>2. CASE \E r \in Requests : ValidatePayment(h, r)
  <2>1. /\ pc[h] = "idle" /\ pc'[h] = "verify"
        /\ \A k \in Handlers \ {h} : pc'[k] = pc[k] /\ doing'[k] = doing[k]
        /\ UNCHANGED <<inserted, requestLock>>
    BY <1>1, <1>2 DEF ValidatePayment, Goto, lockVars
  <2>2. /\ \A r \in Requests : requestLock[r] # h
        /\ \A w \in Withdrawals : withdrawalLock[w] # h
        /\ DOMAIN inserted[h] = {}
    BY <1>1, <2>1, Rowless
  <2>3. Owns(h)' BY <1>1, <2>1, <2>2 DEF Owns
  <2>4. /\ requestLock' \in [Requests -> Handlers \cup {None}]
        /\ withdrawalLock' \in [Withdrawals -> Handlers \cup {None}]
    BY <1>1, <2>1 DEF RowsHeld
  <2> QED BY <1>1, <2>1, <2>3, <2>4, OwnRows
<1>3. CASE Verify(h) \/ CheckNoTransaction(h) \/ CreateWalletTransaction(h)
           \/ SaveWallet(h) \/ ReadFails(h)
  <2>1. /\ pc' = [pc EXCEPT ![h] = pc'[h]]
        /\ pc'[h] \in PostingStates <=> pc[h] \in PostingStates
        /\ pc[h] # "aborted"
        /\ pc[h] \in Booked \cup {"threw"} => pc'[h] \in Booked \cup {"threw"}
        /\ UNCHANGED <<doing, inserted, requestLock>>
    BY <1>1, <1>3 DEF Verify, CheckNoTransaction, CreateWalletTransaction, SaveWallet,
       ReadFails, Goto, lockVars
  <2> QED BY <1>1, <2>1, Passing
<1>4. CASE SaveRequest(h)
  <2>1. /\ pc[h] = "saveRequest"
        /\ \A k \in Handlers \ {h} : pc'[k] = pc[k]
        /\ UNCHANGED <<doing, inserted>>
        /\ \/ pc'[h] = "aborted" /\ UNCHANGED requestLock
           \/ /\ pc'[h] = "check" /\ requestLock[doing[h]] \in {None, h}
              /\ requestLock' = [requestLock EXCEPT ![doing[h]] = h]
    BY <1>1, <1>4 DEF SaveRequest, LockRequest, Goto
  <2>2. /\ \A r \in Requests : requestLock[r] # h
        /\ \A w \in Withdrawals : withdrawalLock[w] # h
        /\ DOMAIN inserted[h] = {}
    BY <1>1, <2>1, Rowless
  <2>3. /\ requestLock \in [Requests -> Handlers \cup {None}]
        /\ withdrawalLock' \in [Withdrawals -> Handlers \cup {None}]
        /\ doing[h] \in Requests /\ None \notin Handlers
    BY <1>1, <2>1, Constants DEF RowsHeld, Credits
  <2>4. CASE pc'[h] = "check"
    <3>1. /\ requestLock' \in [Requests -> Handlers \cup {None}]
          /\ requestLock[doing[h]] \in {None, h}
          /\ \A r \in Requests :
               requestLock'[r] = IF r = doing[h] THEN h ELSE requestLock[r]
      BY <1>1, <2>1, <2>3, <2>4
    <3>2. \A k \in Handlers \ {h}, r \in Requests :
            requestLock'[r] = k <=> requestLock[r] = k
      BY <2>3, <3>1
    <3>3. Owns(h)' BY <1>1, <2>1, <2>2, <2>3, <2>4, <3>1 DEF Owns
    <3> QED BY <1>1, <2>1, <2>3, <3>1, <3>2, <3>3, OwnRows
  <2>5. CASE pc'[h] = "aborted"
    <3>1. UNCHANGED requestLock BY <2>1, <2>5
    <3>2. Owns(h)' BY <1>1, <2>1, <2>2, <2>5, <3>1 DEF Owns
    <3> QED BY <1>1, <2>1, <2>3, <3>1, <3>2, OwnRows
  <2> QED BY <2>1, <2>4, <2>5
<1>5. CASE InsertTransaction(h)
  <2> QED BY <1>1, <1>5, Inserting
<1>6. CASE CommitSettlement(h) \/ RollbackSettlement(h) \/ FailSettlement(h)
  <2>1. /\ pc' = [pc EXCEPT ![h] = "idle"]
        /\ Forget(h) /\ Release(h)
    BY <1>6 DEF CommitSettlement, RollbackSettlement, FailSettlement,
       CommitPosting, RollbackPosting, Goto
  <2> QED BY <1>1, <2>1, Ending
<1>7. CASE \E r \in Requests : AnswerPaid(h, r)
  <2>1. UNCHANGED <<pc, doing, inserted, requestLock>>
    BY <1>7 DEF AnswerPaid, settlementVars, postingVars, localVars, lockVars
  <2> QED BY <1>1, <2>1, Passing
<1> QED
  BY <1>2, <1>3, <1>4, <1>5, <1>6, <1>7 DEF ConfirmStep, ConfirmEvent, PostingStep

(* And after one of the desk or of a payout.                               *)
LEMMA PayoutRows ==
  ASSUME WalletShape, RowsHeld, NEW h \in Handlers,
         \/ \E w \in Withdrawals : InitiateWithdrawal(h, w)
         \/ DeskStep(h) \/ WorkerStep(h) \/ WithdrawalFault(h)
  PROVE  RowsHeld'
<1>1. /\ pc \in [Handlers -> SettlementStates \cup WithdrawalStates]
      /\ doing \in [Handlers -> Requests \cup {None}]
      /\ inserted \in [Handlers -> Seq(TransactionRows)]
      /\ job \in [Handlers -> Withdrawals \cup {None}]
      /\ h \in Workers => h \notin Api
      /\ h \notin Api /\ pc[h] # "idle" => job[h] \in Withdrawals
  BY Constants DEF WalletShape, HandlerTypes, Holds, RoleOK
<1>2. CASE \/ \E w \in Withdrawals : InitiateWithdrawal(h, w)
           \/ Enqueue(h) \/ CommitWithdrawal(h) \/ FailInitiate(h)
  <2>1. /\ pc' = [pc EXCEPT ![h] = pc'[h]]
        /\ pc[h] \notin PostingStates /\ pc'[h] \notin PostingStates
        /\ UNCHANGED job \/ job' = [job EXCEPT ![h] = job'[h]]
        /\ UNCHANGED <<doing, inserted, requestLock, withdrawalLock>>
    BY <1>1, <1>2 DEF InitiateWithdrawal, Enqueue, CommitWithdrawal, FailInitiate,
       Drop, Goto, lockVars, jobVars, payoutVars
  <2> QED BY <2>1, Passing
<1>3. CASE \/ TakeJob(h) \/ Refuse(h) \/ TransferDone(h) \/ TransferUnanswered(h)
           \/ TransferRefused(h) \/ Ack(h)
  <2>1. /\ pc' = [pc EXCEPT ![h] = pc'[h]]
        /\ pc[h] \notin PostingStates /\ pc'[h] \notin PostingStates
        /\ UNCHANGED job \/ job' = [job EXCEPT ![h] = job'[h]]
        /\ UNCHANGED <<doing, inserted, requestLock, withdrawalLock>>
    BY <1>1, <1>3 DEF TakeJob, Refuse, TransferDone, TransferUnanswered,
       TransferRefused, Ack, Drop, Goto, lockVars, jobVars, payoutVars
  <2> QED BY <2>1, Passing
<1>4. CASE h \in Workers /\ LoseJob(h)
  <2>1. UNCHANGED <<pc, doing, inserted, requestLock, job, withdrawalLock>>
    BY <1>4 DEF LoseJob, postingVars, localVars, lockVars, payoutVars
  <2> QED BY <1>1, <2>1, Passing
<1>5. CASE h \in Workers /\ Payout(h)
  <2>1. /\ pc[h] = "payout" /\ pc'[h] \in {"refuse", "noBank", "transfer"}
        /\ \A k \in Handlers \ {h} : pc'[k] = pc[k] /\ doing'[k] = doing[k]
        /\ \/ doing'[h] = doing[h]
           \/ doing'[h] \in Debits /\ \A k \in Handlers : doing[k] # doing'[h]
        /\ UNCHANGED <<inserted, job, requestLock, withdrawalLock>>
    BY <1>1, <1>5 DEF Payout, Fresh, Goto, lockVars, payoutVars
  <2>2. /\ \A r \in Requests : requestLock[r] # h
        /\ \A w \in Withdrawals : withdrawalLock[w] # h
        /\ DOMAIN inserted[h] = {}
    BY <1>1, <2>1, Rowless
  <2>3. doing'[h] # None =>
          doing'[h] \in Debits /\ \A k \in Workers \ {h} : doing'[k] # doing'[h]
    <3>1. h \in Workers /\ Workers \subseteq Handlers BY <1>5, Constants
    <3>2. doing[h] # None =>
            doing[h] \in Debits /\ \A k \in Workers \ {h} : doing[k] # doing[h]
      BY <3>1 DEF RowsHeld, Owns
    <3> QED BY <2>1, <3>1, <3>2
  <2>4. Owns(h)' BY <1>1, <1>5, <2>1, <2>2, <2>3 DEF Owns
  <2>5. /\ requestLock' \in [Requests -> Handlers \cup {None}]
        /\ withdrawalLock' \in [Withdrawals -> Handlers \cup {None}]
    BY <2>1 DEF RowsHeld
  <2> QED BY <2>1, <2>4, <2>5, OwnRows
<1>6. CASE h \in Workers /\ SaveWithdrawal(h)
  <2>1. /\ pc[h] = "saveWithdrawal" /\ pc'[h] = "check"
        /\ \A k \in Handlers \ {h} : pc'[k] = pc[k]
        /\ withdrawalLock[job[h]] = None
        /\ withdrawalLock' = [withdrawalLock EXCEPT ![job[h]] = h]
        /\ UNCHANGED <<doing, inserted, job, requestLock>>
    BY <1>1, <1>6 DEF SaveWithdrawal, Goto, lockVars
  <2>2. /\ \A r \in Requests : requestLock[r] # h
        /\ \A w \in Withdrawals : withdrawalLock[w] # h
        /\ DOMAIN inserted[h] = {}
    BY <1>1, <2>1, Rowless
  <2>3. /\ withdrawalLock \in [Withdrawals -> Handlers \cup {None}]
        /\ requestLock' \in [Requests -> Handlers \cup {None}]
        /\ job[h] \in Withdrawals /\ None \notin Handlers /\ h \notin Api
    BY <1>1, <1>6, <2>1, Constants DEF RowsHeld
  <2>4. /\ withdrawalLock' \in [Withdrawals -> Handlers \cup {None}]
        /\ \A w \in Withdrawals :
             withdrawalLock'[w] = IF w = job[h] THEN h ELSE withdrawalLock[w]
    BY <2>1, <2>3
  <2>5. \A k \in Handlers \ {h}, w \in Withdrawals :
          withdrawalLock'[w] = k <=> withdrawalLock[w] = k
    BY <2>1, <2>3, <2>4
  <2>6. doing'[h] # None =>
          doing'[h] \in Debits /\ \A k \in Workers \ {h} : doing'[k] # doing'[h]
    BY <1>6, <2>1 DEF RowsHeld, Owns
  <2>7. Owns(h)' BY <1>6, <2>1, <2>2, <2>3, <2>4, <2>6 DEF Owns
  <2> QED BY <2>1, <2>3, <2>4, <2>5, <2>7, OwnRows
<1>7. CASE h \in Workers /\ InsertTransaction(h) /\ UNCHANGED payoutVars
  BY <1>7, Inserting DEF payoutVars
<1>8. CASE /\ h \in Workers /\ UNCHANGED payoutVars
           /\ \/ CheckNoTransaction(h) \/ CreateWalletTransaction(h)
              \/ SaveWallet(h) \/ ReadFails(h)
  <2>1. /\ pc' = [pc EXCEPT ![h] = pc'[h]]
        /\ pc'[h] \in PostingStates <=> pc[h] \in PostingStates
        /\ pc[h] # "aborted"
        /\ pc[h] \in Booked \cup {"threw"} => pc'[h] \in Booked \cup {"threw"}
        /\ UNCHANGED <<doing, inserted, requestLock, job, withdrawalLock>>
    BY <1>1, <1>8 DEF CheckNoTransaction, CreateWalletTransaction, SaveWallet,
       ReadFails, Goto, lockVars, payoutVars
  <2> QED BY <2>1, Passing
<1>9. CASE /\ h \in Workers
           /\ \/ CommitPayout(h) \/ Reject(h)
              \/ RollbackPayout(h) \/ FailPayout(h) \/ Crash(h)
  <2>1. /\ \E to \in {"idle", "ack"} : pc' = [pc EXCEPT ![h] = to]
        /\ Forget(h) /\ Release(h) /\ ReleaseWithdrawal(h)
        /\ UNCHANGED job \/ Drop(h)
    BY <1>9 DEF CommitPayout, Reject, RollbackPayout, FailPayout, Crash, EndRun, WritePayout,
       CommitPosting, RollbackPosting, Goto
  <2> QED BY <2>1, Ending
<1>10. CASE DeskStep(h) BY <1>2, <1>10 DEF DeskStep
<1>11. CASE WorkerStep(h)
  BY <1>3, <1>4, <1>5, <1>6, <1>7, <1>8, <1>9, <1>11, Zenon DEF WorkerStep, PostingStep
<1>12. CASE WithdrawalFault(h)
  <2>1. FailPayout(h) \/ Crash(h) => h \in Workers BY DEF FailPayout, Crash
  <2> QED BY <1>2, <1>3, <1>8, <1>9, <1>12, <2>1, Zenon DEF WithdrawalFault
<1> QED BY <1>2, <1>10, <1>11, <1>12

(* Handlers of both sides, and changes of the bank account, keep to it.    *)
THEOREM RowsHeldHolds == PaymentsSpec => []RowsHeld
<1>1. PaymentsInit => RowsHeld
  <2> SUFFICES ASSUME PaymentsInit PROVE RowsHeld
    OBVIOUS
  <2> USE DEF PaymentsInit, SettlementInit, WithdrawalInit, PostingInit
  <2>1. /\ requestLock \in [Requests -> Handlers \cup {None}]
        /\ withdrawalLock \in [Withdrawals -> Handlers \cup {None}]
    OBVIOUS
  <2>2. ASSUME NEW h \in Handlers PROVE Owns(h)
    <3>1. /\ h # None /\ doing[h] = None /\ pc[h] = "idle" /\ DOMAIN inserted[h] = {}
          /\ \A r \in Requests : requestLock[r] = None
          /\ \A w \in Withdrawals : withdrawalLock[w] = None
      BY Constants
    <3> QED BY ONLY <3>1 DEF Owns, PostingStates
  <2> QED BY <2>1, <2>2 DEF RowsHeld
<1>2. ASSUME WalletShape, RowsHeld, [PaymentsNext]_paymentsVars PROVE RowsHeld'
  <2>1. ASSUME UNCHANGED <<pc, doing, inserted, job, requestLock, withdrawalLock>>
        PROVE  RowsHeld'
    BY <1>2, <2>1 DEF RowsHeld, Owns
  <2>2. CASE MoneyIn
    <3>1. CASE \/ \E r \in Requests : Initiate(r)
               \/ \E i \in Invoices : CreateInvoice(i)
      <4>1. UNCHANGED <<pc, doing, inserted, requestLock>>
        BY <3>1 DEF Initiate, CreateInvoice, postingVars, localVars, lockVars
      <4> QED BY <2>1, <2>2, <4>1 DEF MoneyIn, payoutVars
    <3>2. ASSUME NEW h \in Handlers, ConfirmStep(h) \/ ConfirmEvent(h) PROVE RowsHeld'
      <4>1. h \in Api /\ UNCHANGED payoutVars
        BY <2>2, <3>2 DEF ConfirmStep, ConfirmEvent, MoneyIn
      <4> QED BY <1>2, <3>2, <4>1, ConfirmationRows
    <3> QED BY <2>2, <3>1, <3>2 DEF MoneyIn
  <2>3. CASE MoneyOut BY <1>2, <2>3, PayoutRows DEF MoneyOut
  <2>4. CASE ChangeBank
    BY <2>1, <2>4 DEF ChangeBank, localVars, lockVars, payoutVars
  <2>5. CASE \/ AtRest /\ UNCHANGED <<billingVars, changeVars>>
             \/ UNCHANGED paymentsVars
    BY <2>1, <2>5 DEF AtRest, paymentsVars, settlementVars, payoutVars, withdrawalVars,
       postingVars, localVars, lockVars
  <2> QED BY <1>2, <2>2, <2>3, <2>4, <2>5 DEF PaymentsNext
<1> QED BY <1>1, <1>2, WalletShapeHolds, PTL DEF PaymentsSpec

(* However confirmations and payouts overlap, fail and die, they never     *)
(* wait for each other in a circle: each takes the row of its request or   *)
(* withdrawal first (SaveRequest, SaveWithdrawal) and that of the wallet   *)
(* last (SaveWallet), and none gets to the unique index while another one  *)
(* has the same request.  A change of the bank account waits for the       *)
(* wallet only, and holds no row that any of them wants.                   *)
THEOREM WaitsNeverCircle == PaymentsSpec => []WaitsAreShort
<1>1. ASSUME WalletShape, RowsHeld PROVE WaitsAreShort
  <2>1. ASSUME NEW h \in Handlers, NEW k \in Handlers, WaitsFor(h, k)
        PROVE  /\ pc[k] \in PostingStates
               /\ \/ pc[h] \notin PostingStates
                  \/ pc[h] = "saveWallet" /\ pc[k] = "posted"
    <3>0. /\ RoleOK(h) /\ RoleOK(k) /\ RowsOK(k)
          /\ \A r \in Requests : requestLock[r] = k => pc[k] \in PostingStates
          /\ \A w \in Withdrawals : withdrawalLock[w] = k => pc[k] \in PostingStates
          /\ h \in Workers /\ pc[h] \in PostingStates => withdrawalLock[job[h]] = h
          /\ h # k
      BY <1>1, <2>1 DEF WalletShape, Holds, RowsHeld, Owns, WaitsFor
    <3>1. CASE pc[h] = "saveRequest" /\ requestLock[doing[h]] = k
      <4>1. h \in Api
        BY <3>0, <3>1 DEF RoleOK
      <4>2. doing[h] \in Requests BY <3>0, <3>1, <4>1 DEF RoleOK, Credits
      <4> QED BY <3>0, <3>1, <4>2
    <3>2. CASE /\ h \in Workers
               /\ pc[h] \in {"refuse", "saveWithdrawal", "reject", "threw"}
               /\ withdrawalLock[job[h]] = k
      <4>1. job[h] \in Withdrawals BY <3>0, <3>2, Constants DEF RoleOK
      <4> QED BY <3>0, <3>2, <4>1
    <3>3. CASE pc[h] = "saveWallet" /\ walletLock = k
      BY <3>0, <3>3 DEF RowsOK
    <3>4. ASSUME pc[h] = "insert", NEW i \in DOMAIN inserted[k],
                 inserted[k][i].request = doing[h]
          PROVE  FALSE
      <4>1. pc[k] \in Booked \cup {"threw"} /\ doing[k] = doing[h]
        BY <1>1, <3>4 DEF RowsHeld, Owns
      <4>2. h \in Api \cup Workers /\ k \in Api \cup Workers
        <5>1. pc[h] \notin AtDesk \cup {"idle"} /\ pc[k] \notin AtDesk \cup {"idle"}
          BY <3>4, <4>1 DEF AtDesk
        <5> QED BY <3>0, <5>1 DEF RoleOK
      <4>3. /\ h \in Api => doing[h] \in Credits
            /\ k \in Api => doing[k] \in Credits
        BY <3>0, <3>4, <4>1 DEF RoleOK
      <4>4. doing[h] # None
        <5>1. doing[h] \in Requests
          BY <3>0, <3>4, <4>2 DEF RoleOK, Covered, Credits, Debits
        <5> QED BY <5>1, Constants
      <4>5. /\ h \in Workers => /\ doing[h] \in Debits
                                /\ \A l \in Workers \ {h} : doing[l] # doing[h]
            /\ k \in Workers => doing[k] \in Debits
            /\ h \in Api => requestLock[doing[h]] = h
            /\ k \in Api => requestLock[doing[k]] = k
        BY <1>1, <3>4, <4>1, <4>4 DEF RowsHeld, Owns
      <4>6. Credits \cap Debits = {} BY DEF Credits, Debits
      <4> QED BY <3>0, <4>1, <4>2, <4>3, <4>5, <4>6
    <3> QED BY <2>1, <3>1, <3>2, <3>3, <3>4 DEF WaitsFor
  <2>2. ASSUME NEW h \in Handlers, NEW k \in Handlers, NEW l \in Handlers,
               NEW m \in Handlers, WaitsFor(h, k), WaitsFor(k, l), WaitsFor(l, m)
        PROVE  FALSE
    BY <2>1, <2>2
  <2>3. ASSUME NEW l \in Handlers, NEW k \in Handlers, walletLock = l, WaitsFor(l, k)
        PROVE  FALSE
    <3>1. pc[l] = "posted" BY <1>1, <2>3 DEF WalletShape, Holds, RowsOK
    <3> QED BY <2>3, <3>1 DEF WaitsFor
  <2> QED BY <2>1, <2>2, <2>3 DEF WaitsAreShort
<1> QED BY <1>1, WalletShapeHolds, RowsHeldHolds, PTL
=============================================================================
