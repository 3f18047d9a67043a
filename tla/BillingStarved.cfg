SPECIFICATION FairBillingSpec
CONSTANTS
  None = None
  f1 = f1
  m1 = m1
  Desk = {d1}
  Fees = {f1}
  Members = {m1, m2}
  Workers = {w1}
  PoolSize = 2
  Cycle = 1
  MaxAmount = 2
  MaxNotice = 0
  MaxDay = 0
  ListLimit = 1
  HoldersLimit = 1
  MaxSubscriptions = 1
  Requests <- MCRequests
  MaxRows <- MCMaxRows
  Cost <- MCCost
PROPERTIES
  BillJobEnds
