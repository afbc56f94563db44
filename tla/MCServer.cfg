CONSTANTS
  NoAccount = ""
  Accounts = {"", "alice", "bob", "mallory"}
  TickSize = 1
  LotSize = 1
  MaxRecentTrades = 2
  MaxOrderQuantity = 9
  MaxOrderNotional = 20
  MaxOpenOrders = 10
  MaxOpenOrdersPerAccount = 10
  BlockedAccounts = {}
  Requests <- ServerRequests
  MaxOrders = 4
  Handlers = {h1, h2, h3}
  NoHandler = none
  Operations <- AnyOperation
  Faults = {"db", "panic", "crash", "disconnect"}
  MaxRequests = 3
  MaxFaults = 1
SYMMETRY Interchangeable
SPECIFICATION ServerSpec
INVARIANTS
  ServerTypeOK
  AcknowledgedIsDurable
  PublishedIsJournaled
  HistoryTableComplete
  TradesTableComplete
PROPERTIES
  KillSwitchDrains
