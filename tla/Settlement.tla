----------------------------- MODULE Settlement -----------------------------
(***************************************************************************)
(* Payments that come in.  A member makes an invoice of some of his bills, *)
(* asks for a payment link for it (PaymentRequestService.initiate), pays   *)
(* at the gateway, and his browser comes back to GET /payments/confirm:    *)
(* the API asks the gateway what was paid, and in one database transaction *)
(* updates the payment request, books the payment to the wallet (Posting), *)
(* and updates the invoice, its bills and their subscriptions.  The        *)
(* browser may come back several times and at once, several requests may   *)
(* exist for one invoice, and several invoices for one bill.               *)
(***************************************************************************)
EXTENDS Posting, FiniteSets, Functions

CONSTANTS
  Api,            (* handlers that serve GET /payments/confirm             *)
  Invoices,       (* invoices members may create                           *)
  InvoiceOf,      (* InvoiceOf[r]: the invoice a credit request is for     *)
  Bills,
  BillsOf,        (* BillsOf[i]: the bills a member names for an invoice   *)
  Surcharge,      (* Surcharge[i]: the setting when the invoice is created *)
  Subscriptions,
  SubscriptionOf, (* SubscriptionOf[b]: the subscription a bill is for     *)
  Price           (* Price[s]: amount of the service fee of a subscription *)
                  (* which each of its bills copies when it is created     *)

Credits == {r \in Requests : TypeOf[r] = "CREDIT"}

ASSUME SettlementAssumption ==
  /\ Api \subseteq Handlers
  /\ InvoiceOf \in [Credits -> Invoices]
  /\ IsFiniteSet(Bills)
  /\ BillsOf \in [Invoices -> SUBSET Bills]
  /\ Surcharge \in [Invoices -> Nat]
  /\ SubscriptionOf \in [Bills -> Subscriptions]
  /\ Price \in [Subscriptions -> Nat]

VARIABLES
  invoice,       (* invoice rows: status, amount paid and payable amount   *)
  bill,          (* bill rows: status and total amount paid                *)
  subscription   (* subscription rows: totals paid and still payable       *)

billingVars == <<invoice, bill, subscription>>
settlementVars == <<postingVars, billingVars>>

Unpaid == [status |-> "NOT_PAID", paid |-> 0]

NoInvoice == [status |-> "absent", paid |-> 0, due |-> 0]

SettlementStates == {"idle", "verify", "saveRequest"} \cup PostingStates

SettlementInit ==
  /\ PostingInit
  /\ invoice = [i \in Invoices |-> NoInvoice]
  /\ bill = [b \in Bills |-> Unpaid]
  /\ subscription = [s \in Subscriptions |-> [paid |-> 0, payable |-> 0]]

-----------------------------------------------------------------------------
(* POST /invoice.  The new invoice groups all bills that are named and     *)
(* asks for the amounts of those that are not paid, and a surcharge.  The  *)
(* bills are read before it is saved: until a payment is asked for it, an  *)
(* invoice that is there is shown like one that is not, so the two are one *)
(* step.                                                                   *)
SumBills(B) == SumFunctionOnSet([b \in Bills |-> Price[SubscriptionOf[b]]], B)

PaidBills(B) == {b \in B : bill[b].status = "PAID"}

AmountAsked_unpaidOnly(B) == SumBills({b \in B : bill[b].status = "NOT_PAID"})

AmountAsked(B) == SumBills(B \ PaidBills(B))

CreateInvoice(i) ==
  /\ invoice[i].status = "absent"
  /\ invoice' = [invoice EXCEPT ![i] =
                   [status |-> "NOT_PAID", paid |-> 0,
                    due    |-> AmountAsked(BillsOf[i]) + Surcharge[i]]]
  /\ UNCHANGED <<postingVars, bill, subscription>>

(* GET /invoice/:code/payment-request.  The invoice is read, and the       *)
(* request saved, each in a statement of its own: a request saved after    *)
(* the invoice has been paid by another one is indistinguishable from one  *)
(* saved just before, so the two are one step.                             *)
Initiate(r) ==
  /\ r \in Credits
  /\ request[r].status = "absent"
  /\ invoice[InvoiceOf[r]].status \notin {"absent", "PAID"}
  /\ request' = [request EXCEPT ![r] = Unpaid]
  /\ UNCHANGED <<localVars, lockVars, ledgerVars, billingVars>>

(* validatePayment: the request is found by its reference; unless it is    *)
(* already paid its confirmation begins.  No lock is taken.  (The request  *)
(* of a withdrawal has no invoice: its confirmation finds none, throws     *)
(* before the commit and leaves nothing.)                                  *)
ValidatePayment(h, r) ==
  /\ h \in Api
  /\ r \in Credits
  /\ request[r].status \notin {"absent", "PAID"}
  /\ Goto(h, "idle", "verify")
  /\ doing' = [doing EXCEPT ![h] = r]
  /\ UNCHANGED <<answer, inserted, entries, lockVars, ledgerVars, request,
                 billingVars>>

(* validatePayment of a paid request answers with the row it read.         *)
AnswerPaid(h, r) ==
  /\ h \in Api
  /\ r \in Credits
  /\ pc[h] = "idle"
  /\ request[r].status = "PAID"
  /\ UNCHANGED settlementVars

(* confirmPayment: the transaction begins and the gateway is asked.  Each  *)
(* call names the charge to verify, so calls for one request may get       *)
(* different answers.  The status in the answer is not looked at.          *)
Verify(h) ==
  /\ Goto(h, "verify", "saveRequest")
  /\ \E a \in Answers : answer' = [answer EXCEPT ![h] = a]
  /\ UNCHANGED <<doing, inserted, entries, lockVars, ledgerVars, request,
                 billingVars>>

(* What the confirmation makes of the request, which has copied the amount *)
(* that was due when it was saved; no invoice ever changes it.             *)
PaidRequest(h) ==
  [status |-> IF answer[h].amount >= invoice[InvoiceOf[doing[h]]].due
                THEN "PAID" ELSE "PARTIALLY_PAID",
   paid   |-> answer[h].amount]

(* entityManager.save(paymentRequest), with the amount paid: unless that   *)
(* is refused, the row is locked from here.                                *)
SaveRequest_autocommit(h) ==
  /\ Goto(h, "saveRequest", "check")
  /\ LockRequest(h, doing[h])
  /\ request' = [request EXCEPT ![doing[h]] = PaidRequest(h)]
  /\ UNCHANGED <<doing, answer, inserted, entries, walletLock, ledgerVars,
                 billingVars>>

SaveRequest(h) ==
  /\ \/ /\ Goto(h, "saveRequest", "aborted")
        /\ ~ IsWhole(h)
        /\ UNCHANGED requestLock
     \/ /\ Goto(h, "saveRequest", "check")
        /\ IsWhole(h)
        /\ LockRequest(h, doing[h])
  /\ UNCHANGED <<doing, answer, inserted, entries, walletLock, ledgerVars,
                 request, billingVars>>

(* updateInvoice copies the status of the request to the invoice and       *)
(* leaves its amount paid alone; updateBill copies it to the bills and     *)
(* spreads the invoice's amount paid over them and over the subscriptions. *)
(* Bills of one subscription each read the committed totals, so the last   *)
(* save stands for all of them.                                            *)
PerBill(i) == invoice[i].paid \div Cardinality(BillsOf[i])

UpdatedInvoice(i, status) == [invoice EXCEPT ![i].status = status]

UpdatedBill_everyBill(i, status) ==
  [b \in Bills |-> [status |-> status, paid |-> PerBill(i)]]

UpdatedBill(i, status) ==
  [b \in Bills |-> IF b \in BillsOf[i]
                     THEN [status |-> status, paid |-> PerBill(i)]
                     ELSE bill[b]]

UpdatedSubscription(i) ==
  [s \in Subscriptions |->
     IF \E b \in BillsOf[i] : SubscriptionOf[b] = s
       THEN [paid    |-> subscription[s].paid + PerBill(i),
             payable |-> subscription[s].payable - PerBill(i)]
       ELSE subscription[s]]

(* updateInvoice, updateBill and the commit.  The transaction holds the    *)
(* wallet row, which every confirmation updates before these tables, so    *)
(* between these reads, saves and the commit no other confirmation moves.  *)
CommitSettlement(h) ==
  LET i == InvoiceOf[doing[h]]
      status == PaidRequest(h).status
  IN /\ h \in Api
     /\ Goto(h, "posted", "idle")
     /\ request' = [request EXCEPT ![doing[h]] = PaidRequest(h)]
     /\ invoice' = UpdatedInvoice(i, status)
     /\ bill' = UpdatedBill(i, status)
     /\ subscription' = UpdatedSubscription(i)
     /\ CommitPosting(h)

(* An exception leaves connection.transaction with a rollback.             *)
RollbackSettlement_swallows(h) ==
  /\ h \in Api
  /\ \E from \in {"threw", "aborted"} : Goto(h, from, "idle")
  /\ CommitPosting(h)
  /\ UNCHANGED <<request, billingVars>>

RollbackSettlement(h) ==
  /\ h \in Api
  /\ \E from \in {"threw", "aborted"} : Goto(h, from, "idle")
  /\ RollbackPosting(h)
  /\ UNCHANGED <<request, billingVars>>

(* The gateway or the database rejects a call, the invoice is no longer    *)
(* active, or the process dies: the transaction is rolled back.            *)
FailSettlement(h) ==
  /\ h \in Api
  /\ \E from \in {"verify", "saveRequest", "saveWallet", "posted"} :
       Goto(h, from, "idle")
  /\ RollbackPosting(h)
  /\ UNCHANGED <<request, billingVars>>

(* What the promise chain of a confirmation does by itself once begun.     *)
ConfirmStep(h) ==
  /\ h \in Api
  /\ \/ Verify(h)
     \/ SaveRequest(h)
     \/ PostingStep(h) /\ UNCHANGED billingVars
     \/ CommitSettlement(h)
     \/ RollbackSettlement(h)

(* What may happen to it, and what browsers may start.                     *)
ConfirmEvent(h) ==
  /\ h \in Api
  /\ \/ \E r \in Requests : ValidatePayment(h, r) \/ AnswerPaid(h, r)
     \/ ReadFails(h) /\ UNCHANGED billingVars
     \/ FailSettlement(h)

SettlementNext ==
  \/ \E i \in Invoices : CreateInvoice(i)
  \/ \E r \in Requests : Initiate(r)
  \/ \E h \in Handlers : ConfirmStep(h) \/ ConfirmEvent(h)

SettlementSpec == SettlementInit /\ [][SettlementNext]_settlementVars

(* The event loop runs a ready promise, the gateway answers or times out,  *)
(* and Postgres grants a row to the waiting updates in their order.        *)
SettlementFairness ==
  \A h \in Api :
    /\ WF_settlementVars(ConfirmStep(h))
    /\ SF_settlementVars(SaveRequest(h))
    /\ SF_settlementVars(SaveWallet(h) /\ UNCHANGED billingVars)

FairSettlementSpec == SettlementSpec /\ SettlementFairness

-----------------------------------------------------------------------------
(* Properties.                                                             *)

SettlementTypeOK ==
  /\ PostingTypeOK(SettlementStates)
  /\ invoice \in [Invoices -> [status : PaymentStatus, paid : Int, due : Nat]]
  /\ bill \in [Bills -> [status : PaymentStatus, paid : Int]]
  /\ subscription \in [Subscriptions -> [paid : Int, payable : Int]]

(* However many confirmations of a payment request race, at most one       *)
(* payment transaction is committed for it: the row lock taken by the      *)
(* first save, the look-up after it and the unique index work together.    *)
OneTransactionPerRequest ==
  \A i, j \in DOMAIN transactions :
    transactions[i].request = transactions[j].request => i = j

(* A credit request says it was paid, in full or in part, exactly when a   *)
(* payment transaction was committed for it, and then both tell the same   *)
(* amount and the status compares that amount with what was due.           *)
SettledMatchesTransaction ==
  /\ \A r \in Credits :
       request[r].status \in {"PAID", "PARTIALLY_PAID"} => HasTransaction(r)
  /\ \A i \in DOMAIN transactions :
       LET r == transactions[i].request
       IN /\ request[r].paid = transactions[i].amount
          /\ request[r].status =
               IF transactions[i].amount >= invoice[InvoiceOf[r]].due
                 THEN "PAID" ELSE "PARTIALLY_PAID"

(* Every payment transaction reaches the wallet: the two tables hold the   *)
(* same payments in the same order, whatever read fails half-way.          *)
BooksAgree ==
  /\ Len(transactions) = Len(walletTransactions)
  /\ \A i \in DOMAIN transactions :
       /\ transactions[i].request = walletTransactions[i].request
       /\ transactions[i].amount = walletTransactions[i].amount

(* A wallet transaction starts from a balance the wallet really had: the   *)
(* one it opened with or one an earlier wallet transaction left.  Lost     *)
(* updates can make it an old one, uncommitted work never shows.           *)
StartsFromPastBalance ==
  \A i \in DOMAIN walletTransactions :
    \/ walletTransactions[i].previous = Opening
    \/ \E j \in 1 .. i - 1 :
         walletTransactions[i].previous = walletTransactions[j].after

(* The status of an invoice is the status of a settled request for it, and *)
(* the status of a bill that of an invoice that groups it.                 *)
StatusesHaveASource ==
  /\ \A i \in Invoices :
       invoice[i].status \notin {"absent", "NOT_PAID"} =>
         \E r \in Credits : /\ InvoiceOf[r] = i
                            /\ HasTransaction(r)
                            /\ request[r].status = invoice[i].status
  /\ \A b \in Bills :
       bill[b].status # "NOT_PAID" =>
         \E i \in Invoices : /\ b \in BillsOf[i]
                             /\ invoice[i].status = bill[b].status

(* Once a payment transaction exists for a request, no confirmation ever   *)
(* changes the request again: a later one is rolled back as a whole, which *)
(* also leaves a partly paid request partly paid for ever.                 *)
SettledRequestFrozen ==
  [][\A r \in Credits : HasTransaction(r) => request'[r] = request[r]]_settlementVars

(* A confirmation that has begun ends, however handlers wait for each      *)
(* other's rows.                                                           *)
ConfirmationsEnd == \A h \in Api : pc[h] # "idle" ~> pc[h] = "idle"

(* With one confirmation at a time the pipeline implements the ledger.     *)
SettlementLedger == INSTANCE WalletLedger WITH book <- walletTransactions

ImplementsLedger == SettlementLedger!Spec
LedgerChained == SettlementLedger!Chained

(* The test of the confirmation expects the wallet to hold its previous    *)
(* balance plus the amount paid (test/payment-request.e2e-spec.ts:85-86).  *)
BalanceMovesByPayment ==
  [][\A n \in {Len(walletTransactions')} :
       n > Len(walletTransactions) =>
         balance' = balance + walletTransactions'[n].amount]_settlementVars

(* "This will confirm if the payment was truly made, the confirmation is   *)
(* done by the payment gateway" (payment-request.service.ts:123-124).      *)
ConfirmedByGateway ==
  [][\A h \in Api :
       CommitSettlement(h) => answer[h].status = "successful"]_settlementVars

(* "Invoice has already been paid for" (payment-request.service.ts:160):   *)
(* an invoice is not paid twice.                                           *)
InvoicePaidOnce ==
  \A r1, r2 \in Credits :
    /\ request[r1].status = "PAID"
    /\ request[r2].status = "PAID"
    /\ InvoiceOf[r1] = InvoiceOf[r2]
    => r1 = r2
=============================================================================
