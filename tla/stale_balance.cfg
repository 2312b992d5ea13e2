SPECIFICATION Spec
CONSTANTS
  a1 = a1
  a2 = a2
  a3 = a3
  s1 = s1
  s2 = s2
  w1 = w1
  w2 = w2
  Account = {a1, a2}
  Symbol = {s1}
  BadName = {}
  Thread = {w1, w2}
  Document <- TwoWorkersOrders
  Seed <- TwoWorkersSeed
  MaxRequests = 3
PROPERTIES
  ChargesCovered
