CONSTANTS
  NoAccount = ""
  Accounts = {"", "alice", "bob", "mallory"}
  TickSize = 1
  LotSize = 1
  MaxRecentTrades = 2
  MaxOrderQuantity = 9
  MaxOrderNotional = 20
  MaxOpenOrders = 10
  MaxOpenOrdersPerAccount = 10
  BlockedAccounts = {}
  Requests <- CoreRequests
  MaxOrders = 4
SPECIFICATION Spec
INVARIANTS
  TypeOK
  IndexMatchesLevels
  QuantityConserved
  NotionalWithinBudget
  HistoryTracksBook
  RecentTradesNewest
PROPERTIES
  ClosedOrdersFrozen
  PriceTimePriority
  ImplementsLedger
