SPECIFICATION OperationsSpec
CONSTANTS
  Scenes = {"quiet", "faulty", "busy", "crash", "seed", "feeds", "preipo", "stocks", "desk", "signer"}
  m1 = m1
  NoMarket = NoMarket
  NotPosted = NotPosted
  None = None
  Unknown = Unknown
  Down = Down
  Syncs = {r1, r2}
  MaxRuns = 3
  BusyFaults = {"timeout"}
  Backend = "redis"
  Keys <- DeskKeys
  Clients = {r1}
  Requests = {r1}
  NoEntry = NoEntry
  NoDoc = NoDoc
  AgreementBps = 200
  MinLiquidity = 100
  MaxStockAge = 15
  MaxPythAge = 5
  MaxPythConf = 100
  PriceScale = 6
  Insured = 6000
  Readings <- PlainReadings
  Typed = {900}
  Reference <- CoinGecko
  Cent = 7
  Hour = 2
  Window = 3
  MaxTime = 4
  MaxPosts = 2
  FetchFails = FALSE
  Timeouts = FALSE
INVARIANTS  SourcesAreSound DecisionsHold
PROPERTY SeedConverges
CHECK_DEADLOCK FALSE
