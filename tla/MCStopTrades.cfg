CONSTANTS
  NoAccount = ""
  Accounts = {"", "alice", "bob", "mallory"}
  TickSize = 1
  LotSize = 1
  MaxRecentTrades = 2
  MaxOrderQuantity = 9
  MaxOrderNotional = 20
  MaxOpenOrders = 10
  MaxOpenOrdersPerAccount = 10
  BlockedAccounts = {}
  Requests <- TriggerRequests
  MaxOrders = 4
  Handlers = {h1}
  NoHandler = none
  Operations <- Submissions
  Faults = {}
  MaxRequests = 4
  MaxFaults = 0
SPECIFICATION ServerSpec
INVARIANTS
  AcknowledgedTradesStored
