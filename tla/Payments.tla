------------------------------ MODULE Payments ------------------------------
(***************************************************************************)
(* Money in and money out of one wallet: confirmations in the API process  *)
(* (Settlement) beside the payouts of the wallet queue in a worker process *)
(* (Withdrawal), and beside changes of the bank account it is paid out to. *)
(* They share the wallet row, its transactions and nothing else; none of   *)
(* them locks the wallet before it reads the balance.                      *)
(***************************************************************************)
EXTENDS Settlement, Withdrawal

CONSTANT MaxBankChanges  (* bound: changes of the bank account             *)

ASSUME PaymentsAssumption ==
  /\ Api \cap Workers = {}
  /\ Api \cap Desk = {}
  /\ MaxBankChanges \in Nat

VARIABLES
  change,     (* the change of the bank account under way: its next step,  *)
              (* and the balance it has read, as long as it may write it   *)
  changes,    (* changes begun                                             *)
  overtaken   (* history: a payment was booked while a change was under    *)
              (* way                                                       *)

changeVars == <<change, changes, overtaken>>
paymentsVars == <<settlementVars, jobVars, payoutVars, changeVars>>

NoChange == [at |-> "idle", balance |-> None]

PaymentsInit ==
  /\ SettlementInit
  /\ WithdrawalInit
  /\ change = NoChange
  /\ changes = 0
  /\ overtaken = FALSE

-----------------------------------------------------------------------------
(* PATCH /associations with a new bank account: updateAssociation reads    *)
(* the wallet through another session than the one that will save it.      *)
UpdateAssociation ==
  /\ change.at = "idle"
  /\ changes < MaxBankChanges
  /\ change' = [at |-> "compare", balance |-> balance]
  /\ changes' = changes + 1

(* save(wallet) first reads the row again: it is going to write the new    *)
(* bank, and what else differs in the row by then from what it had read.   *)
CompareWallet ==
  /\ change.at = "compare"
  /\ change' = [at |-> "write",
                balance |-> IF balance = change.balance THEN None ELSE change.balance]
  /\ UNCHANGED <<changes, balance>>

(* The update waits for the row and is committed with the association.     *)
SaveBank ==
  /\ change.at = "write"
  /\ walletLock = None
  /\ balance' = IF change.balance = None THEN balance ELSE change.balance
  /\ change' = NoChange
  /\ UNCHANGED changes

(* No such bank, or a statement fails: the change is rolled back.          *)
FailChange ==
  /\ change.at # "idle"
  /\ change' = NoChange
  /\ UNCHANGED <<changes, balance>>

ChangeBank ==
  /\ \/ /\ UpdateAssociation
        /\ UNCHANGED balance
     \/ CompareWallet
     \/ SaveBank
     \/ FailChange
  /\ UNCHANGED <<localVars, lockVars, request, transactions,
                 walletTransactions, billingVars, jobVars, payoutVars, overtaken>>

(* A step of the two sides, and whether it books a payment during a change. *)
BesideChange ==
  /\ overtaken' = \/ overtaken
                   \/ /\ change.at # "idle"
                      /\ walletTransactions' # walletTransactions
  /\ UNCHANGED <<change, changes>>

-----------------------------------------------------------------------------

MoneyIn ==
  /\ \/ \E i \in Invoices : CreateInvoice(i)
     \/ \E r \in Requests : Initiate(r)
     \/ \E h \in Handlers : ConfirmStep(h) \/ ConfirmEvent(h)
  /\ UNCHANGED <<jobVars, payoutVars>>

MoneyOut ==
  /\ \E h \in Handlers :
       \/ \E w \in Withdrawals : InitiateWithdrawal(h, w)
       \/ DeskStep(h)
       \/ WorkerStep(h)
       \/ WithdrawalFault(h)
  /\ UNCHANGED billingVars

PaymentsNext ==
  \/ MoneyIn /\ BesideChange
  \/ MoneyOut /\ BesideChange
  \/ ChangeBank
  \/ AtRest /\ UNCHANGED <<billingVars, changeVars>>

PaymentsSpec == PaymentsInit /\ [][PaymentsNext]_paymentsVars

(* Confirmations, payouts and changes that do not overlap: one at a time.  *)
Busy(h) == h \in Api \cup Workers /\ pc[h] # "idle"
Alone ==
  /\ \A h, k \in Handlers : Busy(h) /\ Busy(k) => h = k
  /\ change.at # "idle" => \A h \in Handlers : ~Busy(h)

SerialPaymentsSpec ==
  PaymentsInit /\ [][PaymentsNext /\ Alone']_paymentsVars

-----------------------------------------------------------------------------
(* Properties of both sides together.                                      *)

(* A payout compares the balance loaded together with the withdrawal, not  *)
(* the one it debits; still the wallet is never overdrawn by one worker    *)
(* beside one confirmation at a time, though withdrawals were accepted     *)
(* that it cannot cover together: unless a change of the bank account      *)
(* writes back a balance from before.                                      *)
NoOverdraft == overtaken \/ balance >= 0

(* What the wallet shows is what its last committed transaction left,      *)
(* whichever side wrote it, because the row lock of the save orders the    *)
(* commits: unless a payment was booked while the bank account changed.    *)
BalanceIsLastLine ==
  overtaken \/
  balance = IF walletTransactions = <<>>
              THEN Opening
              ELSE walletTransactions[Len(walletTransactions)].after
=============================================================================
