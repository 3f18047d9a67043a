SPECIFICATION FairSettlementSpec
CONSTANTS
  None = None
  r1 = r1
  r2 = r2
  r3 = r3
  i1 = i1
  i2 = i2
  b1 = b1
  b2 = b2
  s1 = s1
  paidIn = paidIn
  paidOut = paidOut
  Handlers = {h1, h2}
  Api = {h1, h2}
  Requests = {r1, r2, r3}
  Invoices = {i1, i2}
  Bills = {b1, b2}
  Subscriptions = {s1}
  Amounts = {1, 2}
  Inexact = {}
  Opening = 1
  Verdicts = {"successful"}
  TypeOf <- MCTypeOf
  InvoiceOf <- MCInvoiceOf
  Surcharge <- MCSurcharge
  BillsOf <- MCBillsOf
  SubscriptionOf <- MCSubscriptionOf
  Price <- MCPrice
  OtherLines <- MCOtherLines
INVARIANTS
  SettlementTypeOK
  OneTransactionPerRequest
  SettledMatchesTransaction
  BooksAgree
  StartsFromPastBalance
  StatusesHaveASource
  ScreensAgree
  ReceivedIsCovered
PROPERTIES
  SettledRequestFrozen
  ConfirmationsEnd
