SPECIFICATION Spec
CONSTANTS
  Account = {a1, a2}
  Deposit <- Deposits
  Granted <- Grants
  Amount <- Amounts
  Limit <- Limits
  MaxRequests = 6
  Unit = 10
  Ten = 10
  Digits = 2
  Width = 3
  None = None
CHECK_DEADLOCK FALSE
INVARIANTS
  TypeOK
  OwesAtMostHalf
PROPERTIES
  TradingKeepsShares
  PlacingKeepsCredit
