---------------------------- MODULE MCSettlement ----------------------------
(* Instances of Settlement, and of the screens that read what it writes,   *)
(* for TLC: two requests for one invoice of two bills, and a third request *)
(* for another invoice that groups one of them as well.  Another           *)
(* association has been paid once and has paid out once.                   *)
EXTENDS Reports, TLC

CONSTANTS r1, r2, r3, i1, i2, b1, b2, s1, paidIn, paidOut

MCTypeOf == [r \in Requests |-> "CREDIT"]
MCInvoiceOf == [r \in Requests |-> IF r = r3 THEN i2 ELSE i1]
MCSurcharge == [i \in Invoices |-> IF i = i1 THEN 0 ELSE 1]
MCBillsOf == [i \in Invoices |-> IF i = i1 THEN {b1, b2} ELSE {b1}]
MCSubscriptionOf == [b \in Bills |-> s1]
MCPrice == [s \in Subscriptions |-> 1]
MCOtherLines ==
  {[type |-> "CREDIT", request |-> paidIn, amount |-> 2, previous |-> 0, after |-> 2],
   [type |-> "DEBIT", request |-> paidOut, amount |-> 1, previous |-> 2, after |-> 1]}
=============================================================================
