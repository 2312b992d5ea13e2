SPECIFICATION Spec
CONSTANTS
  a1 = a1
  a2 = a2
  a3 = a3
  s1 = s1
  s2 = s2
  w1 = w1
  w2 = w2
  Account = {a1, a2, a3}
  Symbol = {s1, s2}
  BadName = {s2}
  Thread = {w1}
  Document <- OneWorkerDocuments
  Seed <- TradingSeed
  MaxRequests = 4
INVARIANTS
  SharesConserved
  MoneyAudit
  OrdersAccountedFor
  BookUncrossed
  AnswersAddUp
  HoldingsCovered
  OnlyInputEnds
  FilledMeansExecuted
PROPERTIES
  PriceTimePriority
  ImplementsOrderBook
