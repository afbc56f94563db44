CONSTANTS
  NoAccount = ""
  Accounts = {"", "alice", "bob", "mallory"}
  TickSize = 1
  LotSize = 1
  MaxRecentTrades = 2
  MaxOrderQuantity = 9
  MaxOrderNotional = 20
  MaxOpenOrders = 10
  MaxOpenOrdersPerAccount = 10
  BlockedAccounts = {}
  MaxJournal = 6
  Requests <- TriggerRequests
  MaxOrders = 3
SPECIFICATION RecoverySpec
INVARIANTS
  ReplayRebuildsOrders
