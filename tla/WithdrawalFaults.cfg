SPECIFICATION WithdrawalSpec
CONSTANTS
  None = None
  w1 = w1
  w2 = w2
  w3 = w3
  w4 = w4
  Desk = {d1}
  Workers = {k1, k2}
  Handlers = {d1, k1, k2}
  Withdrawals = {w1, w3}
  Bankless = {}
  Requests = {q1, q2, q3, q4}
  MaxStalled = 1
  GatewayDedupes = FALSE
  Faults = {"answer", "read", "database", "crash"}
  Amounts = {2, 3}
  Inexact = {}
  Opening = 4
  Verdicts = {"successful"}
  TypeOf <- MCTypeOf
  Amount <- MCAmount
SYMMETRY RequestSymmetry
INVARIANTS
  WithdrawalTypeOK
  DebitIsBacked
  WaitingIsDebited
  PendingHasAJob
PROPERTIES
  OutcomeIsFinal
