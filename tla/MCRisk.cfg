CONSTANTS
  NoAccount = ""
  Accounts = {"", "alice", "bob", "mallory"}
  TickSize = 2
  LotSize = 2
  MaxRecentTrades = 2
  MaxOrderQuantity = 9
  MaxOrderNotional = 20
  MaxOpenOrders = 3
  MaxOpenOrdersPerAccount = 1
  BlockedAccounts = {"mallory"}
  Requests <- RiskRequests
  MaxOrders = 4
SPECIFICATION FairSpec
INVARIANTS
  OpenOrdersBounded
PROPERTIES
  CommandsComplete
