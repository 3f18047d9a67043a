SPECIFICATION FairWithdrawalSpec
CONSTANTS
  None = None
  w1 = w1
  w2 = w2
  w3 = w3
  w4 = w4
  Desk = {d1}
  Workers = {k1, k2}
  Handlers = {d1, k1, k2}
  Withdrawals = {w1, w2, w3, w4}
  Bankless = {w4}
  Requests = {q1, q2, q3, q4}
  MaxStalled = 0
  GatewayDedupes = FALSE
  Faults = {}
  Amounts = {2, 3}
  Inexact = {3}
  Opening = 4
  Verdicts = {"successful"}
  TypeOf <- MCTypeOf
  Amount <- MCAmount
INVARIANTS
  TransferMatchesStatus
PROPERTIES
  BegunPayoutsEnd
