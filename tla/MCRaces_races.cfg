SPECIFICATION RacesSpec
CONSTANTS
  Scenes = {"cards", "shop", "accounts", "payouts", "faucet", "desk"}
  Backend = "redis"
  Keys <- AllKeys
  NoEntry = NoEntry
  NoDoc = NoDoc
  Unknown = Unknown
  Requests = {r1, r2}
  Clients = {r1, r2}
  Wallets = {w1, w2}
  Owners = {"owner"}
  TxIds = {1, 2}
  Amounts = {1}
  RateUnit = 2
  TokenUnit = 1
  Rates <- OneTier
  Patches = {}
  Prices = {1}
  MaxUsdc = 1
  MaxDeposits = 2
  WalletMoves = FALSE
  MaxList = 2
  Timeouts = TRUE
  Stops = TRUE
INVARIANTS CashbackBacked RecordsBacked ForgottenForGood
PROPERTIES RefusedWithinDay
SYMMETRY Symmetry
CHECK_DEADLOCK FALSE
