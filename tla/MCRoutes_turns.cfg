SPECIFICATION RoutesSpec
CONSTANTS
  Scenes = {"shop", "cards", "accounts", "payouts", "faucet", "alerts", "waitlist", "memory",
            "orders", "transfers", "warnings"}
  Backend = "redis"
  Keys <- AllKeys
  NoEntry = NoEntry
  NoDoc = NoDoc
  NoLoan = NoLoan
  Nobody = Nobody
  NoRecord = NoRecord
  Requests = {r1}
  Clients = {r1}
  Wallets = {w1}
  Sigs = {s1, s2}
  Symbols = {"watch", "stock"}
  Items <- Catalogue2
  StockPrices = {1, 2}
  Unit = 2
  MinPaid = 2
  Amounts = {1, 2}
  Openable <- StockAccount
  MaxList = 2
  MaxMints = 2
  Repeats = TRUE
  Timeouts = TRUE
  Stops = TRUE
  Expires = FALSE
INVARIANTS NothingTwice NothingMissing MintsOnce MintsPaid
PROPERTIES ImplementsMemory OrderEnds TransferPaidOut Warned
CHECK_DEADLOCK FALSE
