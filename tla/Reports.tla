------------------------------- MODULE Reports -------------------------------
(***************************************************************************)
(* What the screens of an association tell of its payments: the searches   *)
(* for bills and subscriptions, the dashboard, the wallet screen, and the  *)
(* amount a new invoice asks for.  None of them keeps anything: each is a  *)
(* function of the rows Settlement writes.                                 *)
(*                                                                         *)
(* Every list but that of wallet transactions is cut to at most 100 rows   *)
(* and always starts at the first row (the controllers keep an offset only *)
(* when it is negative).  Its rows come in no order the query names, so a  *)
(* list shows some of the items below, any of them; the total beside it    *)
(* counts all.                                                             *)
(***************************************************************************)
EXTENDS Settlement

CONSTANT OtherLines  (* wallet_transaction rows other associations may have *)

(* What a row of either kind tells the wallet screen.                      *)
WalletLines ==
  [type : PaymentType, request : {line.request : line \in OtherLines} \cup Requests,
   amount : Int, previous : Int, after : Int]

(* An invoice is only created for at least one bill; no value is a null;   *)
(* no payment is for two associations.                                     *)
ASSUME ReportsAssumption ==
  /\ \A i \in Invoices : BillsOf[i] # {}
  /\ None \notin Invoices \cup PaymentStatus \cup PaymentType
  /\ IsFiniteSet(Subscriptions)
  /\ OtherLines \subseteq WalletLines
  /\ \A line \in OtherLines : line.request \notin Requests

BillAmount(b) == Price[SubscriptionOf[b]]

-----------------------------------------------------------------------------
(* The bill searches join a bill with the invoices that group it, the      *)
(* requests for those and their transactions, each a LEFT JOIN: what has   *)
(* no partner is kept with a null.                                         *)
LeftJoin(S) == IF S = {} THEN {None} ELSE S

InvoicesWith(b) == {i \in Invoices : b \in BillsOf[i] /\ invoice[i].status # "absent"}

RequestsFor(i) ==
  {r \in Credits : InvoiceOf[r] = i /\ request[r].status # "absent"}

ReceiptOf(r) == IF r # None /\ HasTransaction(r) THEN r ELSE None

InvoiceRows(b) ==
  UNION {{[bill |-> b, invoice |-> i, request |-> r, receipt |-> ReceiptOf(r)] :
             r \in IF i = None THEN {None} ELSE LeftJoin(RequestsFor(i))} :
         i \in LeftJoin(InvoicesWith(b))}

BillRows(B) == UNION {InvoiceRows(b) : b \in B}

(* BillQueryDto: a status and a receipt number to look for, or None.  The  *)
(* filters on dates, names and phone numbers select any of the bills.      *)
BillQuery ==
  [paymentStatus : PaymentStatus \cup {None},
   receiptNumber : Requests \cup {None},
   others        : SUBSET Bills]

Anything == [paymentStatus |-> None, receiptNumber |-> None, others |-> Bills]

BillSearchQuery(q, row) ==
  /\ row.bill \in q.others
  /\ q.paymentStatus \in {None, bill[row.bill].status}
  /\ q.receiptNumber \in {None, row.receipt}

(* The map from a bill to the transaction of the first of its rows, as the *)
(* pairs it may hold, and the number of bills.                             *)
ExtractBillPaymentTransaction(B, q) ==
  LET rows == {row \in BillRows(B) : BillSearchQuery(q, row)}
  IN [pairs |-> {<<row.bill, row.receipt>> : row \in rows},
      total |-> Cardinality({row.bill : row \in rows})]

FindBySubscriptionAndQuery(s, q) ==
  ExtractBillPaymentTransaction({b \in Bills : SubscriptionOf[b] = s}, q)

FindByServiceFeeAndQuery(fee, q) ==
  ExtractBillPaymentTransaction({b \in Bills : SubscriptionOf[b] \in fee}, q)

(* BillTransactionsHandler.transform: the line shown for a pair.           *)
MembershipBill(pair) ==
  [amount               |-> BillAmount(pair[1]),
   paymentStatus        |-> bill[pair[1]].status,
   transactionReference |-> pair[2]]

SubscriptionScreen(s, q) ==
  {MembershipBill(pair) : pair \in FindBySubscriptionAndQuery(s, q).pairs}

ServiceFeeScreen(fee, q) ==
  {MembershipBill(pair) : pair \in FindByServiceFeeAndQuery(fee, q).pairs}

-----------------------------------------------------------------------------
(* Counts and sums.                                                        *)

FindBySubscriptions(S) == {b \in Bills : SubscriptionOf[b] \in S}

(* SubscriptionHandler.transform: a bill that is partly paid is pending.   *)
SubscriptionSummary(s) ==
  LET all == FindBySubscriptions({s})
      paid == Cardinality(PaidBills(all))
  IN [pending         |-> Cardinality(all) - paid,
      paid            |-> paid,
      amountPending   |-> Price[s] * (Cardinality(all) - paid),
      amountReceived  |-> Price[s] * paid]

(* The search for subscriptions by amounts: of the bounds on the pending   *)
(* amount both are lower bounds.                                           *)
SubscriptionQuery ==
  [amountReceivedGreater : Int, amountReceivedLess : Int,
   amountPendingGreater  : Int, amountPendingLess  : Int]

FindByAndServiceFeeQuery(fee, q) ==
  {s \in fee : /\ subscription[s].paid >= q.amountReceivedGreater
               /\ subscription[s].paid <= q.amountReceivedLess
               /\ subscription[s].payable >= q.amountPendingGreater
               /\ subscription[s].payable >= q.amountPendingLess}

SubscriptionsScreen(fee, q) ==
  {SubscriptionSummary(s) : s \in FindByAndServiceFeeQuery(fee, q)}

(* ServiceFeeHandler.transformSingle: the count times the fee's amount.    *)
CountPaid(fee) == Cardinality(PaidBills(FindBySubscriptions(fee)))
FeeDetail(fee, amount) == [amountRaised |-> CountPaid(fee) * amount]

(* The dashboard: everything billed, and as "received" what is not paid.   *)
SumTotalAmount(status) ==
  SumBills({b \in Bills : status \in {None, bill[b].status}})

DashBoard ==
  [totalExpectedDue    |-> SumTotalAmount(None),
   totalAmountReceived |-> SumTotalAmount("NOT_PAID"),
   walletBalance       |-> balance]

(* The contribution graph adds the amounts paid of the bills whose date of *)
(* payment is in a range; the dates are abstracted to sets of bills, one   *)
(* for each month and one for the year.                                    *)
AmountPaid == [b \in Bills |-> bill[b].paid]
SumTotalBillByMonthRange(paid) ==
  SumFunctionOnSet(AmountPaid, {b \in paid : bill[b].status # "NOT_PAID"})

ContributionGraph(months) ==
  [monthlyContribution |->
     [m \in DOMAIN months |-> SumTotalBillByMonthRange(months[m])],
   yearAmount |-> SumTotalBillByMonthRange(UNION {months[m] : m \in DOMAIN months})]

(* The wallet screen: the balance, and as the amount of the month the      *)
(* balance after some transaction of the month, 0 when there is none.      *)
FindByMonth(month) == DOMAIN walletTransactions \cap month

WalletScreens(month) ==
  {[balance |-> balance, amountThisMonth |-> amount] :
     amount \in IF FindByMonth(month) = {} THEN {0}
                ELSE {walletTransactions[n].after : n \in FindByMonth(month)}}

(* The search for wallet transactions: bounds on the amount and a          *)
(* direction, each of them optional (WalletTransactionQueryDto; its dates  *)
(* and names select any of them: `others`).  It is given the wallet of the *)
(* association and does not use it: it searches the rows of this wallet,   *)
(* and those of all others, `elsewhere`, which may be any.                 *)
WalletTransactionQuery ==
  [minAmount : Int \cup {None}, maxAmount : Int \cup {None},
   type : PaymentType \cup {None}, others : SUBSET WalletLines]

OwnLines ==
  {[type     |-> TypeOf[walletTransactions[n].request],
    request  |-> walletTransactions[n].request,
    amount   |-> walletTransactions[n].amount,
    previous |-> walletTransactions[n].previous,
    after    |-> walletTransactions[n].after] : n \in DOMAIN walletTransactions}

FindByWalletAndQuery(elsewhere, q) ==
  {line \in OwnLines \cup elsewhere :
     /\ q.minAmount = None \/ q.minAmount <= line.amount
     /\ q.maxAmount = None \/ line.amount <= q.maxAmount
     /\ q.type \in {None, line.type}
     /\ line \in q.others}

WalletTransactionLine(line) ==
  [amount               |-> line.amount,
   paymentType          |-> line.type,
   transactionReference |-> line.request,
   previousBalance      |-> line.previous,
   walletBalance        |-> line.after]

WalletTransactionList(elsewhere, q) ==
  {WalletTransactionLine(line) : line \in FindByWalletAndQuery(elsewhere, q)}

-----------------------------------------------------------------------------
(* The bills a member sees: his own, by amount and status.                 *)
MemberBillQuery ==
  [minAmount : Int, maxAmount : Int, paymentStatus : PaymentStatus \cup {None}]

FindByMembershipByQuery(own, q) ==
  {b \in own : /\ BillAmount(b) \in q.minAmount .. q.maxAmount
               /\ q.paymentStatus \in {None, bill[b].status}}

MemberBills(own, q) ==
  {[bill |-> b, status |-> bill[b].status, subscription |-> SubscriptionOf[b]] :
     b \in FindByMembershipByQuery(own, q)}

FindByMembershipAndCode(own, named) == own \cap named

(* What an invoice for the bills he names would ask for, but the surcharge *)
NewInvoice(own, named) == AmountAsked(FindByMembershipAndCode(own, named))

-----------------------------------------------------------------------------
(* Properties.                                                             *)

(* The two things a bill list shows agree although different tables tell   *)
(* them: a bill with a receipt number is not called unpaid, and a bill     *)
(* that is called paid, in full or in part, can be found with a receipt.   *)
ReceiptsMatchStatus ==
  \A s \in Subscriptions :
    LET lines == SubscriptionScreen(s, Anything)
        shown == FindBySubscriptionAndQuery(s, Anything).pairs
    IN /\ \A line \in lines :
            line.transactionReference # None => line.paymentStatus # "NOT_PAID"
       /\ \A b \in FindBySubscriptions({s}) :
            bill[b].status # "NOT_PAID" => \E r \in Requests : <<b, r>> \in shown

(* Searched for what came in, the wallet screen lists the receipts on the  *)
(* bill lists of the association and, because it lists them for all        *)
(* wallets, what came in to every other one; nothing on it tells them      *)
(* apart.  The balance it shows is that of the association, after the last *)
(* of its own payments.                                                    *)
Incoming(lines) == {line \in lines : line.type = "CREDIT"}

WalletMatchesReceipts ==
  LET receipts == {line.transactionReference :
                     line \in ServiceFeeScreen(Subscriptions, Anything)}
      last == Len(walletTransactions)
  IN /\ \A elsewhere \in SUBSET OtherLines :
          LET in == [minAmount |-> None, maxAmount |-> None, type |-> "CREDIT",
                     others |-> OwnLines \cup elsewhere]
          IN {line.transactionReference : line \in WalletTransactionList(elsewhere, in)}
               = (receipts \ {None})
                   \cup {line.request : line \in Incoming(elsewhere)}
     /\ last > 0 => WalletScreens({last}) =
          {[balance |-> balance, amountThisMonth |-> balance]}

ScreensAgree == ReceiptsMatchStatus /\ WalletMatchesReceipts

Collected ==
  SumFunctionOnSet([n \in DOMAIN transactions |-> transactions[n].amount],
                   DOMAIN transactions)

(* What the screens count as received came in: the bills a member sees as  *)
(* paid, what a subscription and a fee are said to have raised, and what a *)
(* new invoice no longer asks for are covered by payment transactions,     *)
(* although the requests of an invoice may be settled for different        *)
(* amounts and in any order, and its bills be grouped by other invoices,   *)
(* some of them created when a part of their bills was paid.               *)
FeeRaised == [s \in Subscriptions |-> FeeDetail({s}, Price[s]).amountRaised]

ReceivedIsCovered ==
  LET paidOnes == [minAmount |-> 0, maxAmount |-> SumBills(Bills),
                   paymentStatus |-> "PAID"]
      anyAmount == [amountReceivedGreater |-> 0, amountReceivedLess |-> Collected,
                    amountPendingGreater |-> 0, amountPendingLess |-> 0]
  IN /\ SumBills({line.bill : line \in MemberBills(Bills, paidOnes)}) <= Collected
     /\ \A summary \in SubscriptionsScreen(Subscriptions, anyAmount) :
          summary.amountReceived <= Collected
     /\ SumFunctionOnSet(FeeRaised, Subscriptions) <= Collected
     /\ ContributionGraph(<<Bills>>).yearAmount <= Collected
     /\ NewInvoice(Bills, Bills) >= DashBoard.totalExpectedDue - Collected
=============================================================================
