SPECIFICATION PaymentsSpec
CONSTANTS
  None = None
  r1 = r1
  r2 = r2
  q1 = q1
  q2 = q2
  i1 = i1
  i2 = i2
  b1 = b1
  b2 = b2
  s1 = s1
  w1 = w1
  w2 = w2
  Api = {h1}
  Desk = {d1}
  Workers = {k1}
  Handlers = {h1, d1, k1}
  Requests = {r1, r2, q1, q2}
  Invoices = {i1, i2}
  Bills = {b1, b2}
  Subscriptions = {s1}
  Withdrawals = {w1, w2}
  Amounts = {2}
  Inexact = {}
  Bankless = {}
  Opening = 2
  MaxBankChanges = 1
  MaxStalled = 0
  GatewayDedupes = FALSE
  Faults = {"answer", "read", "database"}
  Verdicts = {"successful"}
  TypeOf <- MCTypeOf
  InvoiceOf <- MCInvoiceOf
  Surcharge <- MCSurcharge
  BillsOf <- MCBillsOf
  SubscriptionOf <- MCSubscriptionOf
  Price <- MCPrice
  Amount <- MCAmount
SYMMETRY DebitSymmetry
INVARIANTS
  NoOverdraft
  BalanceIsLastLine
