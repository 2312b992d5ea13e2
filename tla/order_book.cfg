SPECIFICATION Spec
CONSTANTS
  a1 = a1
  a2 = a2
  s1 = s1
  Account = {a1, a2}
  Symbol = {s1}
  Offer <- Offers
  Deposit = {3}
  Parcel = {1}
  Opening <- OpeningTables
  MaxOrders = 4
  MaxHolding = 3
INVARIANTS
  TypeOK
  Uncrossed
  SharesCovered
PROPERTIES
  SharesOnlyGranted
  MoneyOnlyDeposited
