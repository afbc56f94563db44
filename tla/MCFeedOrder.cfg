CONSTANTS
  NoAccount = ""
  Accounts = {"", "alice", "bob", "mallory"}
  TickSize = 1
  LotSize = 1
  MaxRecentTrades = 2
  MaxOrderQuantity = 9
  MaxOrderNotional = 20
  MaxOpenOrders = 10
  MaxOpenOrdersPerAccount = 10
  BlockedAccounts = {}
  Requests <- ServerRequests
  MaxOrders = 4
  Handlers = {"trader", "rival", "viewer"}
  NoHandler = "none"
  Operations <- TradeAndStream
  Faults = {}
  MaxRequests = 3
  MaxFaults = 0
  Capacity = 2
SPECIFICATION FeedSpec
INVARIANTS
  DisplayFollows
