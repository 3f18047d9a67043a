----------------------------- MODULE MCPayments -----------------------------
(* Instances of Payments for TLC: two payments that come in for an invoice *)
(* each, and two withdrawals the wallet can cover one by one, not both.    *)
EXTENDS Payments, TLC

CONSTANTS r1, r2, q1, q2, i1, i2, b1, b2, s1, w1, w2

MCTypeOf == [r \in Requests |-> IF r \in {r1, r2} THEN "CREDIT" ELSE "DEBIT"]
MCInvoiceOf == [r \in Requests \cap {r1, r2} |-> IF r = r1 THEN i1 ELSE i2]
MCSurcharge == [i \in Invoices |-> 1]
MCBillsOf == [i \in Invoices |-> IF i = i1 THEN {b1} ELSE {b2}]
MCSubscriptionOf == [b \in Bills |-> s1]
MCPrice == [s \in Subscriptions |-> 1]
MCAmount == [w \in Withdrawals |-> 2]

DebitSymmetry == Permutations({q1, q2})
=============================================================================
