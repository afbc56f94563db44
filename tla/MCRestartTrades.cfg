CONSTANTS
  NoAccount = ""
  Accounts = {"", "alice", "bob", "mallory"}
  TickSize = 1
  LotSize = 1
  MaxRecentTrades = 2
  MaxOrderQuantity = 9
  MaxOrderNotional = 20
  MaxOpenOrders = 10
  MaxOpenOrdersPerAccount = 10
  BlockedAccounts = {}
  Requests <- ServerRequests
  MaxOrders = 4
  Handlers = {h1}
  NoHandler = none
  Operations <- Submissions
  Faults = {"crash"}
  MaxRequests = 4
  MaxFaults = 1
SPECIFICATION ServerSpec
INVARIANTS
  AcknowledgedTradesStored
