SPECIFICATION ClientsSpec
CONSTANTS
  Scenes = {"borrower", "saver", "desk", "calculator", "home", "payout", "credit", "rates", "card", "assets", "field"}
  Markets = {m1}
  Owners = {o1}
  Savers = {s1}
  BPS = 20
  SECONDS_PER_YEAR = 1
  MULTIPLIER_SCALE = 1
  TOKEN_UNIT = 4
  U64Max = 1000
  PROTOCOL_SHARE_BPS = 8
  MAX_UTILIZATION_BPS = 18
  CLOSE_FACTOR_BPS = 10
  RiskParams <- OneRisk
  PostedPrices <- Lower
  MintSettings <- Calm
  Clawbacks = {}
  Amounts = {6}
  SavingsAmounts = {}
  TokenAmounts = {5}
  Pauses = {}
  UsdcSupply = 60
  TokenSupply = 6
  MaxTime = 1
  Funding = 40
  FirstRisk <- Listed
  FirstPrice = 14
  Info <- Rows
  CENT = 2
  TOKEN_STEP = 1
  GROUP = 1000
  EQUITY_WARNING = 11
  EQUITY_URGENT = 12
  WARNING_GAP = 3
  URGENT_GAP = 2
  SignedMarkets = {m1}
  NoMarket = NoMarket
  NoPrice = NoPrice
  NoView = NoView
  Unread = Unread
  Runs = {j1, j2}
  NoData = NoData
  NoCard = NoCard
  NoCashback = NoCashback
  None = None
INVARIANTS QuotesHold ChipIsTrue HomeIsHonest DebtIsWhatWasSent LentAsShown SlipIsCaught
PROPERTIES PaysWhatWasTyped NoOldNews ChartKeepsToThePath
CHECK_DEADLOCK FALSE
